---- MODULE Spec2Model ----
(***************************************************************************)
(* Rule engine and round state machine of the six-player trump game       *)
(* (backend/app/game_logic): cards, deck, rules, game.                    *)
(***************************************************************************)
EXTENDS Integers, Sequences, FiniteSets, TLC

VARIABLES
    numPlayers,          \* len(Game.players); seat i has team_id i % 3
    phase,               \* Game.phase
    deck,                \* Game.deck.cards, front first
    hands,               \* Player.hand of the six seats, arrival order
    current_level,       \* Game.current_level
    main_suit,           \* Game.main_suit (None when absent)
    dealer_index,        \* Game.dealer_index
    current_turn_index,  \* Game.current_turn_index
    bottom_cards,        \* Game.bottom_cards
    next_draw_index,     \* Game.next_draw_index
    declaration,         \* Game.declaration (None when absent)
    current_trick,       \* Game.current_trick: sequence of <<player_idx, cards>>
    scores,              \* Game.scores: team -> points
    team_levels,         \* Game.team_levels: team -> level, as main.py reads and writes it
    draw_start,          \* dealer_index as the last start_game left it
    decksBuilt,          \* number of Deck() constructions after the constructor's
    playedCount,         \* cards moved out of hands by play_cards since start_game
    droppedCount,        \* cards drawn for a seat nobody holds since start_game
    strayDepth,          \* calls since the first out-of-order call (0: none yet)
    offScript,           \* a player's accepted call of this round was not the usual one
    result,              \* outcome of the last engine call
    fx                   \* inputs and result of a rule function applied on its own

gameVars == <<numPlayers, phase, deck, hands, current_level, main_suit,
              dealer_index, current_turn_index, bottom_cards, next_draw_index,
              declaration, current_trick, scores, team_levels>>
auxVars == <<draw_start, decksBuilt, playedCount, droppedCount, strayDepth, offScript>>
vars == <<gameVars, auxVars, result, fx>>

----------------------------------------------------------------------------
(* card.py: Suit, Rank, CardType, Card *)

None == "None"
SPADES == "S"
HEARTS == "H"
CLUBS == "C"
DIAMONDS == "D"
JOKER == "JOKER"
PlainSuits == <<SPADES, HEARTS, CLUBS, DIAMONDS>>

TWO == 2
FIVE == 5
TEN == 10
KING == 13
ACE == 14
SMALL_JOKER == 15
BIG_JOKER == 16

SUB_CARD == 0
MAIN_SUIT_CARD == 1
SUB_TWO == 2
MAIN_TWO == 3
SUB_LEVEL == 4
MAIN_LEVEL == 5
SMALL_JOKER_TYPE == 6
BIG_JOKER_TYPE == 7

(* deck.py: four decks of 52 + 2 cards, built in this order; the uuid of a   *)
(* card is modelled by its construction index, offset by 216 per Deck().    *)
NUM_DECKS == 4
DECK_SIZE == 216
CardsPerDeck == DECK_SIZE \div NUM_DECKS
Seats == 0 .. 5
NUM_SEATS == 6
BOTTOM_SIZE == 6

Slot(id) == ((id - 1) % DECK_SIZE) % CardsPerDeck
SuitOf(id) == IF Slot(id) >= 52 THEN JOKER ELSE PlainSuits[(Slot(id) \div 13) + 1]
RankOf(id) ==
    IF Slot(id) = 52 THEN SMALL_JOKER
    ELSE IF Slot(id) = 53 THEN BIG_JOKER
    ELSE TWO + (Slot(id) % 13)

InitializeDeck(batch) == [i \in 1 .. DECK_SIZE |-> batch * DECK_SIZE + i]

(* variant of get_points: a King counts nothing *)
get_points_no_king(id) ==
    IF RankOf(id) = FIVE THEN 5
    ELSE IF RankOf(id) = TEN THEN 10
    ELSE 0

get_points(id) ==
    IF RankOf(id) = FIVE THEN 5
    ELSE IF RankOf(id) = TEN THEN 10
    ELSE IF RankOf(id) = KING THEN 10
    ELSE 0

(* variant of get_effective_type: the Two is looked for before the level rank *)
twos_before_level(id, ms, level) ==
    IF RankOf(id) = BIG_JOKER THEN BIG_JOKER_TYPE
    ELSE IF RankOf(id) = SMALL_JOKER THEN SMALL_JOKER_TYPE
    ELSE IF RankOf(id) = TWO
         THEN (IF SuitOf(id) = ms THEN MAIN_TWO ELSE SUB_TWO)
    ELSE IF RankOf(id) = level
         THEN (IF SuitOf(id) = ms THEN MAIN_LEVEL ELSE SUB_LEVEL)
    ELSE IF SuitOf(id) = ms THEN MAIN_SUIT_CARD
    ELSE SUB_CARD

get_effective_type(id, ms, level) ==
    IF RankOf(id) = BIG_JOKER THEN BIG_JOKER_TYPE
    ELSE IF RankOf(id) = SMALL_JOKER THEN SMALL_JOKER_TYPE
    ELSE IF RankOf(id) = level
         THEN (IF SuitOf(id) = ms THEN MAIN_LEVEL ELSE SUB_LEVEL)
    ELSE IF RankOf(id) = TWO
         THEN (IF SuitOf(id) = ms THEN MAIN_TWO ELSE SUB_TWO)
    ELSE IF SuitOf(id) = ms THEN MAIN_SUIT_CARD
    ELSE SUB_CARD

is_main(id, ms, level) == get_effective_type(id, ms, level) > SUB_CARD

(* Card.__eq__: same suit and rank *)
SameCard(a, b) == SuitOf(a) = SuitOf(b) /\ RankOf(a) = RankOf(b)

----------------------------------------------------------------------------
(* sequence helpers (Python list comprehensions, Counter, sum) *)

Range(s) == {s[i] : i \in DOMAIN s}

(* [c for c in s if c in keep] *)
Filter(s, keep) == SelectSeq(s, LAMBDA c : c \in keep)

RECURSIVE SumSeq(_)
SumSeq(s) == IF s = <<>> THEN 0 ELSE Head(s) + SumSeq(Tail(s))

(* Counter over (suit, rank): the number of cards of s equal to card c *)
CountOf(s, c) == Cardinality({i \in DOMAIN s : SameCard(s[i], c)})

(* max(Counter.values()) if Counter else 0 *)
MaxGroup(s) ==
    IF s = <<>> THEN 0
    ELSE CHOOSE n \in 1 .. Len(s) :
            /\ \E i \in DOMAIN s : CountOf(s, s[i]) = n
            /\ \A i \in DOMAIN s : CountOf(s, s[i]) <= n

(* any(cnt >= size for cnt in Counter.values()) *)
HasGroup(s, size) == \E i \in DOMAIN s : CountOf(s, s[i]) >= size

----------------------------------------------------------------------------
(* rules.py *)

SINGLE == "SINGLE"
PAIR == "PAIR"
TRIPLE == "TRIPLE"
QUAD == "QUAD"
INVALID == "INVALID"
MAIN == "MAIN"

classify_move(cards) ==
    IF Len(cards) = 0 THEN INVALID
    ELSE IF \E i \in 2 .. Len(cards) : ~SameCard(cards[i], cards[1]) THEN INVALID
    ELSE IF Len(cards) = 1 THEN SINGLE
    ELSE IF Len(cards) = 2 THEN PAIR
    ELSE IF Len(cards) = 3 THEN TRIPLE
    ELSE IF Len(cards) = 4 THEN QUAD
    ELSE INVALID

get_card_suit_for_rules(id, ms, level) ==
    IF is_main(id, ms, level) THEN MAIN ELSE SuitOf(id)

validate_lead_turn(cards) == classify_move(cards) # INVALID

(* cards of s whose logic suit is cat, in order *)
InCategory(s, cat, ms, level) ==
    Filter(s, {c \in Range(s) : get_card_suit_for_rules(c, ms, level) = cat})

_check_missing_structure(played_cards, hand_suit_cards, size) ==
    IF ~HasGroup(hand_suit_cards, size) THEN FALSE
    ELSE ~HasGroup(played_cards, size)

check_order(leader_type) ==
    IF leader_type = QUAD THEN <<4, 3, 2>>
    ELSE IF leader_type = TRIPLE THEN <<3, 2>>
    ELSE IF leader_type = PAIR THEN <<2>>
    ELSE <<>>

(* required_to_play: the first size of the order that the hand holds, else 1 *)
RECURSIVE required_to_play(_, _)
required_to_play(order, hand_suit_cards) ==
    IF order = <<>> THEN 1
    ELSE IF HasGroup(hand_suit_cards, Head(order)) THEN Head(order)
    ELSE required_to_play(Tail(order), hand_suit_cards)

(* Outcomes of validate_follow_turn: (True, ""), (False, msg), or the      *)
(* exception raised while evaluating it.  msg is kept as its kind and the   *)
(* value formatted into it.                                                 *)
Refuse(kind, suit, size) == [kind |-> kind, suit |-> suit, size |-> size]
Valid == Refuse("ok", None, 0)

(* rules.py 155-200: the loop over check_order *)
RECURSIVE DeadStickLoop(_, _, _, _)
DeadStickLoop(order, full_order, hand_suit_cards, max_played_structure) ==
    IF order = <<>> THEN Valid
    ELSE IF /\ HasGroup(hand_suit_cards, Head(order))
            /\ max_played_structure < Head(order)
         THEN (IF max_played_structure < required_to_play(full_order, hand_suit_cards)
               THEN Refuse("DeadStickViolation", None,
                           required_to_play(full_order, hand_suit_cards))
               ELSE Valid)
    ELSE DeadStickLoop(Tail(order), full_order, hand_suit_cards, max_played_structure)

(* rules.py 117-126: the QUAD lead is checked first on its own; line 120     *)
(* calls Rules._has_structure, which no class defines: evaluating the right *)
(* operand of its "and" raises AttributeError.                              *)
QuadPrecheck(follower_cards, hand_suit_cards) ==
    IF _check_missing_structure(follower_cards, hand_suit_cards, 4)
    THEN Refuse("MustPlayQuad", None, 0)
    ELSE IF _check_missing_structure(follower_cards, hand_suit_cards, 3)
    THEN Refuse("AttributeError", None, 0)
    ELSE Valid

(* variants of the two suit checks: one matching card is enough; no check   *)
follow_suit_lenient(count_in_hand, count_required, count_played_matching) ==
    count_in_hand >= count_required /\ count_played_matching = 0

follow_suit_unchecked(count_in_hand, count_required, count_played_matching) == FALSE

exhaust_suit_lenient(count_in_hand, count_required, count_played_matching) ==
    count_in_hand < count_required /\ count_in_hand > 0 /\ count_played_matching = 0

(* rules.py 99-100: enough cards of the suit are held, fewer are played *)
follow_suit_missed(count_in_hand, count_required, count_played_matching) ==
    count_in_hand >= count_required /\ count_played_matching < count_required

(* rules.py 102-104: too few are held, and not all of them are played *)
exhaust_suit_missed(count_in_hand, count_required, count_played_matching) ==
    count_in_hand < count_required /\ count_played_matching < count_in_hand

validate_follow_turn(leader_cards, follower_cards, follower_hand, ms, level) ==
    LET leader_type == classify_move(leader_cards)
        target == get_card_suit_for_rules(leader_cards[1], ms, level)
        hand_suit_cards == InCategory(follower_hand, target, ms, level)
        played_suit_cards == InCategory(follower_cards, target, ms, level)
        count_in_hand == Len(hand_suit_cards)
        count_required == Len(leader_cards)
        count_played_matching == Len(played_suit_cards)
        pre == IF leader_type = QUAD
               THEN QuadPrecheck(follower_cards, hand_suit_cards)
               ELSE Valid
    IN  IF Len(follower_cards) # Len(leader_cards) THEN Refuse("WrongCardCount", None, 0)
        ELSE IF leader_type = INVALID THEN Refuse("LeaderInvalid", None, 0)
        ELSE IF follow_suit_missed(count_in_hand, count_required, count_played_matching)
             THEN Refuse("MustFollowSuit", target, 0)
        ELSE IF exhaust_suit_missed(count_in_hand, count_required, count_played_matching)
             THEN Refuse("MustExhaustSuit", target, 0)
        ELSE IF count_played_matching # count_required THEN Valid
        ELSE IF pre # Valid THEN pre
        ELSE DeadStickLoop(check_order(leader_type), check_order(leader_type),
                           hand_suit_cards, MaxGroup(follower_cards))

(* variant of get_card_power_score: a plain main-suit card scores its rank *)
score_without_suit_bonus(id, ms, level) ==
    LET c_type == get_effective_type(id, ms, level)
    IN  IF c_type = BIG_JOKER_TYPE THEN 900
        ELSE IF c_type = SMALL_JOKER_TYPE THEN 800
        ELSE IF c_type = MAIN_LEVEL THEN 700
        ELSE IF c_type = SUB_LEVEL THEN 600
        ELSE IF c_type = MAIN_TWO THEN 500
        ELSE IF c_type = SUB_TWO THEN 400
        ELSE RankOf(id)

get_card_power_score(id, ms, level) ==
    LET c_type == get_effective_type(id, ms, level)
    IN  IF c_type = BIG_JOKER_TYPE THEN 900
        ELSE IF c_type = SMALL_JOKER_TYPE THEN 800
        ELSE IF c_type = MAIN_LEVEL THEN 700
        ELSE IF c_type = SUB_LEVEL THEN 600
        ELSE IF c_type = MAIN_TWO THEN 500
        ELSE IF c_type = SUB_TWO THEN 400
        ELSE IF c_type = MAIN_SUIT_CARD THEN 200 + RankOf(id)
        ELSE RankOf(id)

(* variant of is_stronger: an equal score overtakes *)
is_at_least(challenger, defender, ms, level) ==
    get_card_power_score(challenger[1], ms, level)
        >= get_card_power_score(defender[1], ms, level)

is_stronger(challenger, defender, ms, level) ==
    get_card_power_score(challenger[1], ms, level)
        > get_card_power_score(defender[1], ms, level)

(* rules.py 259-295: one pass of the loop, i the 1-based position of the    *)
(* challenger, win the position of the best move so far                     *)
RECURSIVE CompareLoop(_, _, _, _, _)
CompareLoop(moves, i, win, ms, level) ==
    IF i > Len(moves) THEN win
    ELSE
        LET leader_cards == moves[1][2]
            challenger_cards == moves[i][2]
            leader_suit_cat == get_card_suit_for_rules(leader_cards[1], ms, level)
            challenger_suit_cat == get_card_suit_for_rules(challenger_cards[1], ms, level)
            is_kill == leader_suit_cat # MAIN /\ challenger_suit_cat = MAIN
            is_follow == challenger_suit_cat = leader_suit_cat
        IN  IF ~is_kill /\ ~is_follow THEN CompareLoop(moves, i + 1, win, ms, level)
            ELSE IF classify_move(challenger_cards) # classify_move(leader_cards)
                 THEN CompareLoop(moves, i + 1, win, ms, level)
            ELSE IF is_stronger(challenger_cards, moves[win][2], ms, level)
                 THEN CompareLoop(moves, i + 1, i, ms, level)
            ELSE CompareLoop(moves, i + 1, win, ms, level)

(* the 0-based index of the winning move, -1 for no moves *)
compare_turn(moves, ms, level) ==
    IF moves = <<>> THEN -1 ELSE CompareLoop(moves, 2, 1, ms, level) - 1

(* variant of calculate_declaration_strength: two jokers already count *)
strength_from_joker_pairs(cards, level) ==
    IF cards = <<>> THEN 0
    ELSE IF \E i \in 2 .. Len(cards) : ~SameCard(cards[i], cards[1]) THEN 0
    ELSE IF RankOf(cards[1]) = level THEN Len(cards) * 10
    ELSE IF RankOf(cards[1]) = SMALL_JOKER /\ Len(cards) >= 2
         THEN 50 + (Len(cards) - 3) * 20
    ELSE IF RankOf(cards[1]) = BIG_JOKER /\ Len(cards) >= 2
         THEN 60 + (Len(cards) - 3) * 20
    ELSE 0

calculate_declaration_strength(cards, level) ==
    IF cards = <<>> THEN 0
    ELSE IF \E i \in 2 .. Len(cards) : ~SameCard(cards[i], cards[1]) THEN 0
    ELSE IF RankOf(cards[1]) = level THEN Len(cards) * 10
    ELSE IF RankOf(cards[1]) = SMALL_JOKER /\ Len(cards) >= 3
         THEN 50 + (Len(cards) - 3) * 20
    ELSE IF RankOf(cards[1]) = BIG_JOKER /\ Len(cards) >= 3
         THEN 60 + (Len(cards) - 3) * 20
    ELSE 0

----------------------------------------------------------------------------
(* player.py *)

team_id(seat) == seat % 3

(* variant of receive_cards: the cards go in front of the hand *)
receive_in_front(hand, cards) == cards \o hand

(* player.receive_cards: the hand extended by the cards, in their order *)
receive_cards(hand, cards) == hand \o cards

(* variant of has_cards: one owned id is enough *)
has_some_card(hand, card_ids) == Range(card_ids) \cap Range(hand) # {}

has_cards(hand, card_ids) == Range(card_ids) \subseteq Range(hand)

(* variant of remove_cards: the hand keeps its cards *)
hand_kept(hand, card_ids) == hand

(* the cards of hand named by card_ids, in hand order: player.remove_cards's *)
(* removed list and play_cards's cards_to_play                              *)
cards_named(hand, card_ids) == Filter(hand, Range(card_ids))

(* player.remove_cards: the hand that is left *)
hand_without(hand, card_ids) == Filter(hand, Range(hand) \ Range(card_ids))

----------------------------------------------------------------------------
(* game.py: phases, the call outcome, construction *)

WAITING == "WAITING"
DRAWING == "DRAWING"
EXCHANGING == "EXCHANGING"
PLAYING == "PLAYING"
FINISHED == "FINISHED"

INITIAL_LEVEL == 3
UNSET == -1

(* a call's return value: None (none = TRUE), draw_next_card's (seat, card), *)
(* finalize_drawing_phase's dict, _resolve_trick's result                   *)
NoRet ==
    [none |-> TRUE, seat |-> UNSET, cards |-> <<>>, suit |-> None,
     winner_idx |-> UNSET, points |-> 0, kitty |-> 0, game_over |-> FALSE]
DrawRet(seat, card) == [NoRet EXCEPT !.none = FALSE, !.seat = seat, !.cards = <<card>>]
FinalizeRet(ms, d, bottom) ==
    [NoRet EXCEPT !.none = FALSE, !.suit = ms, !.seat = d, !.cards = bottom]
TrickRet(winner_idx, points, kitty, game_over) ==
    [NoRet EXCEPT !.none = FALSE, !.winner_idx = winner_idx, !.points = points,
                  !.kitty = kitty, !.game_over = game_over]

(* what the last call did: returned (exc = "") with value ret, or raised    *)
(* exc with the message msg; suit_val is declare_main_suit's third argument *)
Returned(op, player, ids, ret) ==
    [op |-> op, exc |-> "", msg |-> Valid, player |-> player, ids |-> ids,
     suit_val |-> None, ret |-> ret]
Raised(op, exc, msg, player, ids) ==
    [op |-> op, exc |-> exc, msg |-> msg, player |-> player, ids |-> ids,
     suit_val |-> None, ret |-> NoRet]

NoCall == Returned("init", UNSET, <<>>, NoRet)
NoDeclaration == [player_idx |-> UNSET, cards |-> <<>>, suit |-> None, strength |-> 0]
NoFx == [fn |-> "none"]

(* the level every team starts at *)
InitialTeamLevels == [t \in 0 .. 2 |-> INITIAL_LEVEL]

GameInit ==
    /\ numPlayers = 0
    /\ phase = WAITING
    /\ deck = InitializeDeck(0)
    /\ hands = [s \in Seats |-> <<>>]
    /\ current_level = INITIAL_LEVEL
    /\ main_suit = None
    /\ dealer_index = UNSET
    /\ current_turn_index = UNSET
    /\ bottom_cards = <<>>
    /\ next_draw_index = 0
    /\ declaration = NoDeclaration
    /\ current_trick = <<>>
    /\ scores = [t \in 0 .. 2 |-> 0]
    /\ team_levels = InitialTeamLevels
    /\ draw_start = UNSET
    /\ decksBuilt = 0
    /\ playedCount = 0
    /\ droppedCount = 0
    /\ strayDepth = 0
    /\ offScript = FALSE
    /\ result = NoCall

Init == GameInit /\ fx = NoFx

----------------------------------------------------------------------------
(* bounds of the exploration, and the inputs the callers submit *)

NumShuffles == 2      \* outcomes of random.shuffle that are followed
MaxRounds == 2        \* rounds dealt out in one behaviour
DeclWindow == 19      \* draws of a round during which players still call
FreeCards == 6        \* cards played in a round while players still vary
MaxSuccessions == 12  \* next_game calls followed at a table of short rounds
MaxStrayDepth == 1    \* calls followed from the first out-of-order call on

(* one outcome of random.shuffle per k: the order (Stride * i + Offset) mod  *)
(* 216 with the ids of Front(k) exchanged into the first positions          *)
ScenarioFront ==
    <<67, 17, 30, 43, 22, 39,
      13, 12, 14, 2, 3, 4,
      53, 15, 32, 56, 47, 54,
      107, 69, 86, 44, 45, 46,
      161>>
Strides == <<5, 7, 25, 11>>
Offsets == <<0, 3, 7, 1>>
JokerFront == <<53, 54, 107, 108, 161, 162>>
(* bottom: the 6 of each suit, Hearts 7, Clubs 7; then Spades A Q J 9 8 7 *)
PlainFront == <<5, 18, 31, 44, 19, 32, 13, 11, 10, 8, 7, 6>>
Front(k) ==
    IF k = 1 THEN ScenarioFront
    ELSE IF k = 2 THEN JokerFront
    ELSE IF k = 0 THEN PlainFront
    ELSE <<>>
Stride(k) == Strides[((k - 1) % Len(Strides)) + 1]
Offset(k) == Offsets[((k - 1) % Len(Offsets)) + 1]

RECURSIVE PlaceFront(_, _, _)
PlaceFront(o, front, i) ==
    IF i > Len(front) THEN o
    ELSE LET j == CHOOSE j \in DOMAIN o : o[j] = front[i]
         IN  PlaceFront([o EXCEPT ![j] = o[i], ![i] = front[i]], front, i + 1)

ShuffleOrder(k) ==
    PlaceFront([i \in 1 .. DECK_SIZE |->
                  ((Stride(k) * (i - 1) + Offset(k)) % DECK_SIZE) + 1],
               Front(k), 1)

(* deck.shuffle applied to the Deck() built as batch number batch *)
Shuffled(k, batch) ==
    LET o == ShuffleOrder(k)
        cards == InitializeDeck(batch)
    IN  [i \in 1 .. DECK_SIZE |-> cards[o[i]]]

Drawn == (DECK_SIZE - BOTTOM_SIZE) - Len(deck)

(* a table whose driver ends the draw when each seat holds one card         *)
(* (finalize_drawing_phase does not look at the deck), round after round    *)
ShortRounds == fx.fn = "short_rounds"

(* a table whose six websocket handlers each take PLAY_CARDS messages as    *)
(* they arrive                                                              *)
Concurrent == fx.fn = "concurrent_plays"

(* the rounds that are followed *)
RoundsBound == IF ShortRounds THEN MaxSuccessions ELSE MaxRounds

(* whether callers still submit calls other than the driver's own next one: *)
(* in the first round, no error pending, early in the draw or the play      *)
Probing ==
    \/ Concurrent
    \/ /\ ~ShortRounds
       /\ strayDepth = 0
       /\ decksBuilt <= 1
       /\ result.exc = ""
       /\ phase = DRAWING => Drawn <= DeclWindow
       /\ phase = PLAYING => playedCount < FreeCards

(* a call in protocol order keeps strayDepth; the first call out of order   *)
(* and every call after it counts against MaxStrayDepth                     *)
Ordered(inOrder) ==
    IF ShortRounds \/ Concurrent \/ (strayDepth = 0 /\ inOrder) THEN strayDepth' = 0
    ELSE /\ strayDepth > 0 \/ Probing
         /\ strayDepth < MaxStrayDepth
         /\ strayDepth' = strayDepth + 1

(* card ids naming no card *)
ForeignIds == <<0, 0, 0, 0, 0, 0>>

(* first n copies, in hand order, of the first card of s with n copies *)
FirstGroup(s, n) ==
    IF ~HasGroup(s, n) THEN <<>>
    ELSE LET i == CHOOSE i \in DOMAIN s :
                    /\ CountOf(s, s[i]) >= n
                    /\ \A j \in 1 .. i - 1 : CountOf(s, s[j]) < n
             same == Filter(s, {c \in Range(s) : SameCard(c, s[i])})
         IN  SubSeq(same, 1, n)

Prefix(s, n) == SubSeq(s, 1, IF n < Len(s) THEN n ELSE Len(s))

Suffix(s, n) == SubSeq(s, IF Len(s) > n THEN Len(s) - n + 1 ELSE 1, Len(s))

----------------------------------------------------------------------------
(* game.py: add_player, start_game *)

AddPlayer ==
    /\ strayDepth = 0
    /\ IF numPlayers >= NUM_SEATS
       THEN /\ Probing
            /\ result' = Raised("add_player", "ValueError", Refuse("RoomFull", None, 0),
                                numPlayers, <<>>)
            /\ UNCHANGED <<gameVars, auxVars>>
       ELSE /\ numPlayers' = numPlayers + 1
            /\ result' = Returned("add_player", numPlayers, <<>>, NoRet)
            /\ UNCHANGED <<phase, deck, hands, current_level, main_suit, dealer_index,
                           current_turn_index, bottom_cards, next_draw_index,
                           declaration, current_trick, scores, auxVars>>

(* variant of start_dealer: always seat 0 *)
first_seat(d) == 0

(* variant of start_dealer: dealer_index as it was *)
dealer_as_found(d) == d

(* dealer_index after start_game: seat 0 when it was unset *)
start_dealer(d) == IF d = UNSET THEN 0 ELSE d

(* a further round is followed from a finished round in which every player  *)
(* made the usual calls; start_game itself tests the seats only             *)
StartGame(k) ==
    IF numPlayers # NUM_SEATS
    THEN /\ Probing
         /\ result' = Raised("start_game", "ValueError", Refuse("WrongPlayerCount", None, 0),
                             UNSET, <<>>)
         /\ UNCHANGED <<gameVars, auxVars>>
    ELSE /\ decksBuilt <= MaxRounds
         /\ phase = FINISHED => ~offScript
         /\ Ordered(phase \in {WAITING, FINISHED})
         /\ LET cards == Shuffled(k, decksBuilt + 1)
            IN  /\ deck' = SubSeq(cards, BOTTOM_SIZE + 1, DECK_SIZE)
                /\ bottom_cards' = SubSeq(cards, 1, BOTTOM_SIZE)
         /\ hands' = [s \in Seats |-> <<>>]
         /\ phase' = DRAWING
         /\ declaration' = NoDeclaration
         /\ main_suit' = None
         /\ dealer_index' = start_dealer(dealer_index)
         /\ next_draw_index' = start_dealer(dealer_index)
         /\ draw_start' = start_dealer(dealer_index)
         /\ decksBuilt' = decksBuilt + 1
         /\ playedCount' = 0
         /\ droppedCount' = 0
         /\ offScript' = FALSE
         /\ result' = Returned("start_game", UNSET, <<>>, NoRet)
         /\ UNCHANGED <<numPlayers, current_level, current_turn_index, current_trick,
                        scores>>

----------------------------------------------------------------------------
(* main.py: next_game *)

(* the teams other than the dealer's, in the order 0, 1, 2 *)
defender_teams(dealer_team) == SelectSeq(<<0, 1, 2>>, LAMBDA t : t # dealer_team)

(* variant of best_defender: the first defending team, whatever the scores *)
first_defender(teams, sc, best) ==
    IF teams = <<>> THEN best ELSE <<sc[Head(teams)], Head(teams)>>

(* the loop over the defending teams: <<max_defender_score,                 *)
(* winning_defender_team>>, replaced by a strictly higher score only        *)
RECURSIVE best_defender(_, _, _)
best_defender(teams, sc, best) ==
    IF teams = <<>> THEN best
    ELSE best_defender(Tail(teams), sc,
                       IF sc[Head(teams)] > best[1]
                       THEN <<sc[Head(teams)], Head(teams)>>
                       ELSE best)

DEFENDER_GOAL == 130

(* the first seat of the team met walking clockwise from the seat after d *)
clockwise_member(d, team) ==
    LET i == CHOOSE i \in 1 .. 5 :
                 /\ team_id((d + i) % NUM_SEATS) = team
                 /\ \A j \in 1 .. i - 1 : team_id((d + j) % NUM_SEATS) # team
    IN  (d + i) % NUM_SEATS

(* variant of level_up: the levels as they were *)
level_kept(levels, team) == levels

level_up(levels, team) == [levels EXCEPT ![team] = @ + 1]

(* a round is dealt out while rounds remain, and after the first round only *)
(* when every player of the round before made the usual calls               *)
Followed == decksBuilt <= RoundsBound /\ (offScript => decksBuilt <= 1)

NextGame(k) ==
    IF phase # FINISHED
    THEN /\ Probing
         /\ result' = Raised("next_game", "HTTPException", Refuse("NotFinished", None, 0),
                             UNSET, <<>>)
         /\ UNCHANGED <<gameVars, auxVars>>
    ELSE /\ decksBuilt <= RoundsBound
         /\ LET dealer_team == team_id(dealer_index)
                best == best_defender(defender_teams(dealer_team), scores, <<0, UNSET>>)
                kept == best[1] < DEFENDER_GOAL
                new_team == IF kept THEN dealer_team ELSE best[2]
                new_dealer_idx == clockwise_member(dealer_index, new_team)
                levels == IF kept THEN level_up(team_levels, dealer_team) ELSE team_levels
                cards == Shuffled(k, decksBuilt + 1)
            IN  /\ team_levels' = levels
                /\ current_level' = levels[new_team]
                /\ dealer_index' = new_dealer_idx
                /\ next_draw_index' = new_dealer_idx
                /\ draw_start' = new_dealer_idx
                /\ deck' = SubSeq(cards, BOTTOM_SIZE + 1, DECK_SIZE)
                /\ bottom_cards' = SubSeq(cards, 1, BOTTOM_SIZE)
                /\ result' = Returned("next_game", new_dealer_idx, <<>>, NoRet)
         /\ hands' = [s \in Seats |-> <<>>]
         /\ phase' = DRAWING
         /\ declaration' = NoDeclaration
         /\ main_suit' = None
         /\ decksBuilt' = decksBuilt + 1
         /\ playedCount' = 0
         /\ droppedCount' = 0
         /\ UNCHANGED <<numPlayers, current_turn_index, current_trick, scores,
                        strayDepth, offScript>>

----------------------------------------------------------------------------
(* game.py: draw_next_card *)

(* variant of draw_successor: the seat before seat s *)
draw_predecessor(s) == (s + 5) % NUM_SEATS

(* the seat dealt to after seat s *)
draw_successor(s) == (s + 1) % NUM_SEATS

DrawNextCard ==
    IF deck = <<>>
    THEN /\ Probing \/ phase = DRAWING
         /\ strayDepth = 0
         /\ result' = Returned("draw_next_card", UNSET, <<>>, NoRet)
         /\ UNCHANGED <<gameVars, auxVars>>
    ELSE /\ Followed
         /\ Ordered(phase = DRAWING)
         /\ deck' = Tail(deck)
         /\ IF next_draw_index >= numPlayers
            THEN \* self.players[player_idx] raises after deck.draw(1)
                 /\ result' = Raised("draw_next_card", "IndexError",
                                     Refuse("players", None, 0), next_draw_index, <<>>)
                 /\ droppedCount' = droppedCount + 1
                 /\ UNCHANGED <<hands, next_draw_index>>
            ELSE /\ hands' = [hands EXCEPT ![next_draw_index] =
                                  receive_cards(@, <<Head(deck)>>)]
                 /\ UNCHANGED droppedCount
                 /\ next_draw_index' = draw_successor(next_draw_index)
                 /\ result' = Returned("draw_next_card", next_draw_index, <<>>,
                                       DrawRet(next_draw_index, Head(deck)))
         /\ UNCHANGED <<numPlayers, phase, current_level, main_suit, dealer_index,
                        current_turn_index, bottom_cards, declaration, current_trick,
                        scores, draw_start, decksBuilt, playedCount, offScript>>

----------------------------------------------------------------------------
(* game.py: declare_main_suit *)

SuitValues == {SPADES, HEARTS, CLUBS, DIAMONDS, JOKER}

(* a suit argument that is no value of Suit *)
NoSuitValue == "STARS"

(* the suit a declaration names, given that its cards are valid *)
declared_suit(cards, suit_val) ==
    IF SuitOf(cards[1]) = JOKER THEN suit_val ELSE SuitOf(cards[1])

(* variant of the challenge test: a call as strong as the active one passes *)
weaker_only(strength, active) == strength < active

(* the challenge test: a call no stronger than the active one is too weak *)
too_weak(strength, active) == strength <= active

(* the ValueError declare_main_suit raises, "" when it raises none *)
declare_error(player_idx, card_ids, suit_val) ==
    LET cards == cards_named(hands[player_idx], card_ids)
        strength == calculate_declaration_strength(cards, current_level)
    IN  IF phase # DRAWING THEN "WrongPhase"
        ELSE IF ~has_cards(hands[player_idx], card_ids) THEN "CardsNotOwned"
        ELSE IF strength = 0 THEN "InvalidDeclaration"
        ELSE IF SuitOf(cards[1]) = JOKER /\ suit_val \notin SuitValues
             THEN "InvalidSuitSelection"
        ELSE IF /\ SuitOf(cards[1]) # JOKER
                /\ suit_val # None
                /\ suit_val # SuitOf(cards[1])
             THEN "SuitMismatch"
        ELSE IF declaration # NoDeclaration /\ too_weak(strength, declaration.strength)
             THEN "WeakDeclaration"
        ELSE ""

(* variant of the dealer rule: every accepted declarer becomes dealer *)
latest_declarer(player_idx) == player_idx

(* dealer_index after an accepted declaration: the first declarer's seat    *)
declared_dealer(player_idx) ==
    IF declaration = NoDeclaration THEN player_idx ELSE dealer_index

DeclareMainSuit(player_idx, card_ids, suit_val) ==
    LET cards == cards_named(hands[player_idx], card_ids)
        err == declare_error(player_idx, card_ids, suit_val)
        decl == [player_idx |-> player_idx, cards |-> card_ids,
                 suit |-> declared_suit(cards, suit_val),
                 strength |-> calculate_declaration_strength(cards, current_level)]
    IN  /\ Probing
        /\ IF err # ""
           THEN /\ result' = [Raised("declare_main_suit", "ValueError",
                                     Refuse(err, None, 0), player_idx, card_ids)
                               EXCEPT !.suit_val = suit_val]
                /\ UNCHANGED <<gameVars, auxVars>>
           ELSE /\ declaration' = decl
                /\ main_suit' = decl.suit
                /\ dealer_index' = declared_dealer(player_idx)
                /\ current_turn_index' = IF declaration = NoDeclaration THEN player_idx
                                         ELSE current_turn_index
                /\ result' = [Returned("declare_main_suit", player_idx, card_ids, NoRet)
                               EXCEPT !.suit_val = suit_val]
                /\ offScript' = TRUE
                /\ UNCHANGED <<numPlayers, phase, deck, hands, current_level,
                               bottom_cards, next_draw_index, current_trick, scores,
                               draw_start, decksBuilt, playedCount, droppedCount, strayDepth>>

(* the prefixes of the groups of level cards and jokers a hand holds *)
DeclarableGroups(hand) ==
    {SubSeq(Filter(hand, {c \in Range(hand) : SameCard(c, hand[i])}), 1, n) :
        <<i, n>> \in {x \in (DOMAIN hand) \X (1 .. NUM_DECKS) :
            /\ RankOf(hand[x[1]]) \in {current_level, SMALL_JOKER, BIG_JOKER}
            /\ CountOf(hand, hand[x[1]]) >= x[2]}}

(* what a player submits to declare: owned level cards or jokers with a     *)
(* suit argument, and submissions that must be refused                      *)
DeclareInputs(seat) ==
    LET hand == hands[seat] IN
    IF phase # DRAWING THEN {<<Prefix(hand, 1), None>>}
    ELSE (DeclarableGroups(hand) \X {None, HEARTS, JOKER, NoSuitValue})
         \cup {<<Prefix(hand, 1), None>>, <<Prefix(ForeignIds, 1), None>>,
               <<Prefix(hand, 1) \o Prefix(ForeignIds, 1), None>>}

----------------------------------------------------------------------------
(* game.py: finalize_drawing_phase, exchange_cards *)

(* variant of the flip: the last card of the highest rank *)
last_best(non_jokers) ==
    non_jokers[CHOOSE i \in DOMAIN non_jokers :
        /\ \A j \in DOMAIN non_jokers : RankOf(non_jokers[j]) <= RankOf(non_jokers[i])
        /\ \A j \in i + 1 .. Len(non_jokers) : RankOf(non_jokers[j]) < RankOf(non_jokers[i])]

(* max(non_jokers, key=rank): the first card of the highest rank *)
best_card(non_jokers) ==
    non_jokers[CHOOSE i \in DOMAIN non_jokers :
        /\ \A j \in DOMAIN non_jokers : RankOf(non_jokers[j]) <= RankOf(non_jokers[i])
        /\ \A j \in 1 .. i - 1 : RankOf(non_jokers[j]) < RankOf(non_jokers[i])]

(* main_suit after the bottom is flipped *)
flipped_suit(bottom) ==
    LET non_jokers == Filter(bottom, {c \in Range(bottom) : SuitOf(c) # JOKER})
    IN  IF non_jokers = <<>> THEN None ELSE SuitOf(best_card(non_jokers))

FinalizeDrawingPhase ==
    LET ms == IF declaration = NoDeclaration THEN flipped_suit(bottom_cards)
              ELSE main_suit
        d == IF declaration = NoDeclaration THEN start_dealer(dealer_index)
             ELSE dealer_index
    IN  /\ Ordered(phase = DRAWING /\ deck = <<>>)
        /\ main_suit' = ms
        /\ dealer_index' = d
        /\ IF d >= numPlayers
           THEN \* self.players[self.dealer_index] raises after the flip
                /\ result' = Raised("finalize_drawing_phase", "IndexError",
                                    Refuse("players", None, 0), d, <<>>)
                /\ UNCHANGED <<hands, bottom_cards, phase, current_turn_index>>
           ELSE /\ hands' = [hands EXCEPT ![d] = receive_cards(@, bottom_cards)]
                /\ bottom_cards' = <<>>
                /\ phase' = EXCHANGING
                /\ current_turn_index' = d
                /\ result' = Returned("finalize_drawing_phase", d, <<>>,
                                      FinalizeRet(ms, d, bottom_cards))
        /\ UNCHANGED <<numPlayers, deck, current_level, next_draw_index, declaration,
                       current_trick, scores, draw_start, decksBuilt, playedCount, droppedCount,
                       offScript>>

(* variant of the count test: fewer than six ids pass *)
too_many_only(card_ids) == Len(card_ids) > BOTTOM_SIZE

(* the count test of exchange_cards *)
wrong_count(card_ids) == Len(card_ids) # BOTTOM_SIZE

(* the ValueError exchange_cards raises, "" when it raises none *)
exchange_error(player_idx, card_ids) ==
    IF phase # EXCHANGING THEN "WrongPhase"
    ELSE IF player_idx # dealer_index THEN "NotDealer"
    ELSE IF wrong_count(card_ids) THEN "WrongExchangeCount"
    ELSE IF ~has_cards(hands[player_idx], card_ids) THEN "CardsNotOwned"
    ELSE ""

ExchangeCards(player_idx, card_ids) ==
    LET err == exchange_error(player_idx, card_ids) IN
    IF err # ""
    THEN /\ Probing
         /\ result' = Raised("exchange_cards", "ValueError", Refuse(err, None, 0),
                             player_idx, card_ids)
         /\ UNCHANGED <<gameVars, auxVars>>
    ELSE /\ Ordered(TRUE)
         /\ bottom_cards' = cards_named(hands[player_idx], card_ids)
         /\ hands' = [hands EXCEPT ![player_idx] = hand_without(@, card_ids)]
         /\ phase' = PLAYING
         /\ current_turn_index' = dealer_index
         /\ result' = Returned("exchange_cards", player_idx, card_ids, NoRet)
         /\ offScript' = (offScript \/ card_ids # Suffix(hands[player_idx], BOTTOM_SIZE))
         /\ UNCHANGED <<numPlayers, deck, current_level, main_suit, dealer_index,
                        next_draw_index, declaration, current_trick, scores,
                        draw_start, decksBuilt, playedCount, droppedCount>>

(* what a player submits to exchange_cards: the last six cards received,    *)
(* six ids naming five cards, too few ids, five owned ids with an id of no  *)
(* card, ids of no card                                                     *)
ExchangeInputs(seat) ==
    LET hand == hands[seat] IN
    IF phase # EXCHANGING \/ seat # dealer_index THEN {Prefix(hand, BOTTOM_SIZE)}
    ELSE {Suffix(hand, BOTTOM_SIZE),
          Prefix(hand, 1) \o Prefix(hand, BOTTOM_SIZE - 1),
          Prefix(hand, BOTTOM_SIZE - 1),
          Prefix(hand, BOTTOM_SIZE - 1) \o Prefix(ForeignIds, 1),
          ForeignIds}

----------------------------------------------------------------------------
(* game.py: play_cards, _resolve_trick *)

(* the lead a player makes by default: the largest group held, first found *)
LeadDefault(hand) ==
    IF HasGroup(hand, 4) THEN FirstGroup(hand, 4)
    ELSE IF HasGroup(hand, 3) THEN FirstGroup(hand, 3)
    ELSE IF HasGroup(hand, 2) THEN FirstGroup(hand, 2)
    ELSE Prefix(hand, 1)

(* the follow a player makes by default: the bucket cards first, the        *)
(* largest group the lead asks for among them                               *)
FollowDefault(hand, lead) ==
    LET cat == get_card_suit_for_rules(lead[1], main_suit, current_level)
        inb == InCategory(hand, cat, main_suit, current_level)
        out == Filter(hand, Range(hand) \ Range(inb))
        n == Len(lead)
        size == required_to_play(check_order(classify_move(lead)), inb)
        core == FirstGroup(inb, size)
        rest == Filter(inb, Range(inb) \ Range(core))
    IN  IF Len(inb) < n THEN inb \o Prefix(out, n - Len(inb))
        ELSE core \o Prefix(rest, n - size)

(* the play a player makes by default *)
PlayDefault(hand) ==
    IF current_trick = <<>> THEN LeadDefault(hand)
    ELSE FollowDefault(hand, current_trick[1][2])

(* what validation says of a play by the seat whose turn it is: "ok", the   *)
(* refusal, or the exception raised while validating                        *)
play_validation(cards_to_play, hand) ==
    IF current_trick = <<>>
    THEN (IF validate_lead_turn(cards_to_play) THEN Valid
          ELSE Refuse("InvalidMoveStructure", None, 0))
    ELSE validate_follow_turn(current_trick[1][2], cards_to_play, hand,
                              main_suit, current_level)

(* variant of the turn order: the next seat is skipped *)
turn_skipping(s) == (s + 2) % NUM_SEATS

(* the seat to play after seat s *)
turn_successor(s) == (s + 1) % NUM_SEATS

RECURSIVE TrickPoints(_)
TrickPoints(moves) ==
    IF moves = <<>> THEN 0
    ELSE SumSeq([i \in DOMAIN Head(moves)[2] |-> get_points(Head(moves)[2][i])])
         + TrickPoints(Tail(moves))

bottom_points(bottom) == SumSeq([i \in DOMAIN bottom |-> get_points(bottom[i])])

(* variant of the bonus: the dealer's team too takes the bottom's points *)
kitty_to_any_team(winner_idx, is_last_trick) ==
    IF is_last_trick /\ bottom_cards # <<>> /\ bottom_points(bottom_cards) > 0
    THEN bottom_points(bottom_cards) * 2
    ELSE 0

(* the bottom's points, doubled, for a last trick that the dealer's team    *)
(* does not win                                                             *)
kitty_bonus(winner_idx, is_last_trick) ==
    IF /\ is_last_trick
       /\ bottom_cards # <<>>
       /\ bottom_points(bottom_cards) > 0
       /\ team_id(winner_idx) # team_id(dealer_index % NUM_SEATS)
    THEN bottom_points(bottom_cards) * 2
    ELSE 0

(* variant of _resolve_trick: the leader takes every trick *)
resolve_trick_leader(moves, hands_after) ==
    TrickRet(moves[1][1], 0, 0, Len(hands_after[moves[1][1]]) = 0)

(* _resolve_trick on the six moves, with the hands as the last play left    *)
(* them: winner, points added, whether the round is over                    *)
resolve_trick(moves, hands_after) ==
    LET winner_idx == moves[compare_turn(moves, main_suit, current_level) + 1][1]
        is_last_trick == Len(hands_after[winner_idx]) = 0
        kitty == kitty_bonus(winner_idx, is_last_trick)
    IN  TrickRet(winner_idx, TrickPoints(moves) + kitty, kitty, is_last_trick)

(* variant of a rejected play: the cards leave the hand before the raise *)
play_rejected_late(exc, msg, player_idx, card_ids) ==
    /\ result' = Raised("play_cards", exc, msg, player_idx, card_ids)
    /\ hands' = [hands EXCEPT ![player_idx] = Filter(@, Range(@) \ Range(card_ids))]
    /\ UNCHANGED <<numPlayers, phase, deck, current_level, main_suit, dealer_index,
                   current_turn_index, bottom_cards, next_draw_index, declaration,
                   current_trick, scores, auxVars>>

(* the rejection of a play: the exception goes to the caller, nothing else  *)
(* is assigned                                                              *)
play_rejected(exc, msg, player_idx, card_ids) ==
    /\ result' = Raised("play_cards", exc, msg, player_idx, card_ids)
    /\ UNCHANGED <<gameVars, auxVars>>

PlayCards(player_idx, card_ids) ==
    LET hand == hands[player_idx]
        cards_to_play == cards_named(hand, card_ids)
        verdict == play_validation(cards_to_play, hand)
        hands_after == [hands EXCEPT ![player_idx] = hand_without(@, card_ids)]
        trick_after == Append(current_trick, <<player_idx, cards_to_play>>)
        res == resolve_trick(trick_after, hands_after)
    IN  IF phase # PLAYING
        THEN Probing /\ play_rejected("ValueError", Refuse("WrongPhase", None, 0),
                                      player_idx, card_ids)
        ELSE IF player_idx # current_turn_index
        THEN Probing /\ play_rejected("ValueError", Refuse("NotYourTurn", None, 0),
                                      player_idx, card_ids)
        ELSE IF verdict.kind = "AttributeError"
        THEN Probing /\ play_rejected("AttributeError", verdict, player_idx, card_ids)
        ELSE IF verdict # Valid
        THEN Probing /\ play_rejected("ValueError", verdict, player_idx, card_ids)
        ELSE /\ Ordered(TRUE)
             /\ hands' = hands_after
             /\ playedCount' = playedCount + Len(cards_to_play)
             /\ offScript' = (offScript \/ card_ids # PlayDefault(hand))
             /\ IF Len(trick_after) = NUM_SEATS
                THEN /\ scores' = [scores EXCEPT ![team_id(res.winner_idx)] =
                                      @ + res.points]
                     /\ current_turn_index' = res.winner_idx
                     /\ current_trick' = <<>>
                     /\ phase' = IF res.game_over THEN FINISHED ELSE phase
                     /\ result' = Returned("play_cards", player_idx, card_ids, res)
                ELSE /\ current_trick' = trick_after
                     /\ current_turn_index' = turn_successor(current_turn_index)
                     /\ result' = Returned("play_cards", player_idx, card_ids, NoRet)
                     /\ UNCHANGED <<scores, phase>>
             /\ UNCHANGED <<numPlayers, deck, current_level, main_suit, dealer_index,
                            bottom_cards, next_draw_index, declaration, draw_start, decksBuilt,
                            droppedCount>>

(* what a player submits to play_cards.  The seat to play: the default, and *)
(* while players still vary a single, the first cards of the hand or of the *)
(* bucket, one card too many, no card, an id of no card, the id of a card   *)
(* the next seat holds.  The seat after it, and seat 0 outside PLAYING: its *)
(* first card.                                                              *)
PlayInputs(seat) ==
    LET hand == hands[seat]
        lead == current_trick[1][2]
        cat == get_card_suit_for_rules(lead[1], main_suit, current_level)
    IN  IF phase # PLAYING THEN (IF seat = 0 THEN {Prefix(hand, 1)} ELSE {})
        ELSE IF seat = turn_successor(current_turn_index) THEN {Prefix(hand, 1)}
        ELSE IF seat # current_turn_index THEN {}
        ELSE IF current_trick = <<>>
        THEN {PlayDefault(hand)} \cup
             (IF Probing
              THEN {Prefix(hand, 1), Prefix(hand, 2), <<>>,
                    Prefix(hand, 1) \o Prefix(ForeignIds, 1),
                    Prefix(hand, 1) \o Prefix(hands[turn_successor(seat)], 1)}
              ELSE {})
        ELSE {PlayDefault(hand)} \cup
             (IF Probing
              THEN {Prefix(hand, Len(lead)),
                    Prefix(InCategory(hand, cat, main_suit, current_level), Len(lead)),
                    Prefix(hand, Len(lead) + 1)}
              ELSE {})

(* the shuffles dealt from: each of them for the first deck, the first one   *)
(* for the decks after it                                                   *)
ShufflesOf(built) == IF built = 0 THEN 1 .. NumShuffles ELSE {1}

ProbeSeat(seat, inPhase) == phase = inPhase \/ seat = 0

Next ==
    \/ AddPlayer /\ UNCHANGED <<fx, team_levels>>
    \/ \E k \in ShufflesOf(decksBuilt) : StartGame(k) /\ UNCHANGED <<fx, team_levels>>
    \/ \E k \in ShufflesOf(decksBuilt) : NextGame(k) /\ UNCHANGED fx
    \/ DrawNextCard /\ UNCHANGED <<fx, team_levels>>
    \/ \E seat \in {s \in Seats : Probing /\ ProbeSeat(s, DRAWING)} :
          \E in \in DeclareInputs(seat) :
             DeclareMainSuit(seat, in[1], in[2]) /\ UNCHANGED <<fx, team_levels>>
    \/ FinalizeDrawingPhase /\ UNCHANGED <<fx, team_levels>>
    \/ \E seat \in Seats : \E ids \in ExchangeInputs(seat) :
          /\ ProbeSeat(seat, EXCHANGING)
          /\ phase = EXCHANGING => seat \in {dealer_index, turn_successor(dealer_index)}
          /\ ExchangeCards(seat, ids)
          /\ UNCHANGED <<fx, team_levels>>
    \/ \E seat \in Seats : \E ids \in PlayInputs(seat) :
          PlayCards(seat, ids) /\ UNCHANGED <<fx, team_levels>>

Spec == Init /\ [][Next]_vars

----------------------------------------------------------------------------
(* the same engine at a table of short rounds: six players, then round      *)
(* after round one card dealt to each seat, the draw finalized, the bottom  *)
(* put back, one trick played, and next_game                                *)

InitLevels == GameInit /\ fx = [fn |-> "short_rounds"]

NextLevels ==
    \/ AddPlayer /\ UNCHANGED <<fx, team_levels>>
    \/ phase = WAITING /\ StartGame(0) /\ UNCHANGED <<fx, team_levels>>
    \/ phase = DRAWING /\ Drawn < NUM_SEATS /\ DrawNextCard
          /\ UNCHANGED <<fx, team_levels>>
    \/ phase = DRAWING /\ Drawn = NUM_SEATS /\ FinalizeDrawingPhase
          /\ UNCHANGED <<fx, team_levels>>
    \/ phase = EXCHANGING
          /\ ExchangeCards(dealer_index, Suffix(hands[dealer_index], BOTTOM_SIZE))
          /\ UNCHANGED <<fx, team_levels>>
    \/ phase = PLAYING
          /\ PlayCards(current_turn_index, PlayDefault(hands[current_turn_index]))
          /\ UNCHANGED <<fx, team_levels>>
    \/ NextGame(0) /\ UNCHANGED fx

SpecLevels == InitLevels /\ [][NextLevels]_vars

----------------------------------------------------------------------------
(* main.py, websocket_endpoint: the six players' handlers of one game.      *)
(* A handler runs from one await to the next without another handler       *)
(* running: it takes a PLAY_CARDS message, calls play_cards and builds its  *)
(* first message in one step (main.py 409-419), and is back at              *)
(* receive_json once its messages are sent (419-446).  An exception other   *)
(* than ValueError leaves the loop and closes the connection (452-457).     *)

TricksDealt == 2    \* cards dealt to each seat before the draw is finalized

HandlerAt(where) == [s \in Seats |-> where]

InitPlays == GameInit /\ fx = [fn |-> "concurrent_plays", pc |-> HandlerAt("receive")]

(* the handler of seat s takes a PLAY_CARDS message: the play the player    *)
(* would make with the trick as it lies, whoever's turn it is               *)
WsPlayCards(s) ==
    /\ phase \in {PLAYING, FINISHED}
    /\ fx.pc[s] = "receive"
    /\ PlayCards(s, PlayDefault(hands[s]))
    /\ fx' = [fx EXCEPT !.pc[s] = IF result'.exc \in {"", "ValueError"}
                                  THEN "send" ELSE "closed"]
    /\ UNCHANGED team_levels

(* the messages of seat s's handler are sent: PLAYER_PLAYED and what        *)
(* follows it, or the ERROR to the player                                   *)
WsSent(s) ==
    /\ fx.pc[s] = "send"
    /\ fx' = [fx EXCEPT !.pc[s] = "receive"]
    /\ UNCHANGED <<gameVars, auxVars, result>>

NextPlays ==
    \/ AddPlayer /\ UNCHANGED <<fx, team_levels>>
    \/ phase = WAITING /\ StartGame(1) /\ UNCHANGED <<fx, team_levels>>
    \/ phase = DRAWING /\ Drawn < NUM_SEATS * TricksDealt /\ DrawNextCard
          /\ UNCHANGED <<fx, team_levels>>
    \/ phase = DRAWING /\ Drawn = NUM_SEATS * TricksDealt /\ FinalizeDrawingPhase
          /\ UNCHANGED <<fx, team_levels>>
    \/ phase = EXCHANGING
          /\ ExchangeCards(dealer_index, Suffix(hands[dealer_index], BOTTOM_SIZE))
          /\ UNCHANGED <<fx, team_levels>>
    \/ \E s \in Seats : WsPlayCards(s)
    \/ \E s \in Seats : WsSent(s)

SpecPlays == InitPlays /\ [][NextPlays]_vars

----------------------------------------------------------------------------
(* rules.py applied on its own: validate_follow_turn *)

NumFollowKinds == 5   \* kinds of card a follower's hand is made of
NumTrickKinds == 5    \* kinds of card the followers of a trick play
MaxMoveSize == 2      \* cards in a move of a trick that is compared

(* the slot of a suit (position in PlainSuits, from 0) and rank; the id of   *)
(* its copy-th copy, 1 .. NUM_DECKS, in a deck as _initialize_deck builds it *)
CardSlot(suit_pos, rank) == suit_pos * 13 + (rank - TWO)
BigJokerSlot == CardsPerDeck - 1
CopyId(slot, copy) == (copy - 1) * CardsPerDeck + slot + 1

LeadSlot == CardSlot(0, 9)
LeadCards(n) == [i \in 1 .. n |-> CopyId(LeadSlot, i)]

(* Spades K, Spades Q, Hearts 7, Clubs 3, Spades J, Hearts 8, and the most   *)
(* copies of each that a hand holds                                         *)
FollowKinds ==
    <<CardSlot(0, KING), CardSlot(0, 12), CardSlot(1, 7), CardSlot(2, 3),
      CardSlot(0, 11), CardSlot(1, 8)>>
FollowCopies == <<4, 3, 2, 1, 1, 1>>

CountVectors ==
    {c \in [1 .. NumFollowKinds -> 0 .. NUM_DECKS] :
        \A k \in 1 .. NumFollowKinds : c[k] <= FollowCopies[k]}

RECURSIVE CardsOf(_, _)
CardsOf(c, k) ==
    IF k > NumFollowKinds THEN <<>>
    ELSE [i \in 1 .. c[k] |-> CopyId(FollowKinds[k], i)] \o CardsOf(c, k + 1)

VectorSize(c) == SumSeq([k \in 1 .. NumFollowKinds |-> c[k]])

(* play_cards hands validate_follow_turn the lead of the trick, cards of the *)
(* follower's own hand, and that hand                                       *)
FollowInputs(suits) ==
    {[fn |-> "validate_follow_turn",
      leader_cards |-> LeadCards(n),
      held |-> c,
      follower_hand |-> CardsOf(c, 1),
      follower_cards |-> <<>>,
      main_suit |-> ms,
      level |-> INITIAL_LEVEL,
      applied |-> FALSE,
      verdict |-> Valid] :
        <<n, c, ms>> \in {x \in (1 .. NUM_DECKS) \X CountVectors \X suits :
                            VectorSize(x[2]) >= x[1]}}

(* the first copies of each kind held, as many cards as the lead or one more *)
FollowPlays ==
    {p \in CountVectors :
        /\ \A k \in 1 .. NumFollowKinds : p[k] <= fx.held[k]
        /\ VectorSize(p) \in {Len(fx.leader_cards), Len(fx.leader_cards) + 1}}

InitFollow == GameInit /\ fx \in FollowInputs({SPADES, HEARTS})

ValidateFollowTurn ==
    /\ ~fx.applied
    /\ \E p \in FollowPlays :
          fx' = [fx EXCEPT
                   !.follower_cards = CardsOf(p, 1),
                   !.applied = TRUE,
                   !.verdict = validate_follow_turn(fx.leader_cards, CardsOf(p, 1),
                                                    fx.follower_hand, fx.main_suit,
                                                    fx.level)]
    /\ UNCHANGED <<gameVars, auxVars, result>>

NextFollow == ValidateFollowTurn

SpecFollow == InitFollow /\ [][NextFollow]_vars

----------------------------------------------------------------------------
(* rules.py applied on its own: compare_turn *)

(* Spades 9, Spades K, Hearts 2, Clubs 2, Clubs K, Hearts 7, Diamonds K *)
TrickKinds ==
    <<CardSlot(0, 9), CardSlot(0, KING), CardSlot(1, TWO), CardSlot(2, TWO),
      CardSlot(2, KING), CardSlot(1, 7), CardSlot(3, KING)>>

(* the moves a follower makes with n cards, as slots: n of a kind, or the    *)
(* Big Joker with Spades Q                                                   *)
FollowerMoves(n) ==
    {[i \in 1 .. n |-> TrickKinds[k]] : k \in 1 .. NumTrickKinds}
    \cup (IF n >= 2
          THEN {[i \in 1 .. n |-> IF i = 1 THEN BigJokerSlot ELSE CardSlot(0, 12)]}
          ELSE {})

(* which copy the j-th card of the i-th move is: the copies before it count *)
CopyIndex(ks, i, j) ==
    1 + SumSeq([m \in 1 .. i - 1 |->
                  Cardinality({q \in DOMAIN ks[m] : ks[m][q] = ks[i][j]})])
      + Cardinality({q \in 1 .. j - 1 : ks[i][q] = ks[i][j]})

TrickSlots(size) ==
    {ks \in UNION {[1 .. NUM_SEATS -> FollowerMoves(n) \cup {[i \in 1 .. n |-> LeadSlot]}] :
                      n \in 1 .. size} :
        /\ \A i \in 1 .. Len(ks[1]) : ks[1][i] = LeadSlot
        /\ \A i \in 1 .. NUM_SEATS : \A j \in DOMAIN ks[i] :
              CopyIndex(ks, i, j) <= NUM_DECKS}

(* current_trick when _resolve_trick runs: six (player_idx, cards) *)
TrickMoves(ks) ==
    [i \in 1 .. NUM_SEATS |->
        <<i - 1, [j \in DOMAIN ks[i] |-> CopyId(ks[i][j], CopyIndex(ks, i, j))]>>]

TrickInputs(suits) ==
    {[fn |-> "compare_turn",
      moves |-> TrickMoves(ks),
      main_suit |-> ms,
      level |-> INITIAL_LEVEL,
      applied |-> FALSE,
      winner |-> UNSET] : <<ks, ms>> \in TrickSlots(MaxMoveSize) \X suits}

InitTrick == GameInit /\ fx \in TrickInputs({SPADES, HEARTS})

CompareTurn ==
    /\ ~fx.applied
    /\ fx' = [fx EXCEPT
                !.applied = TRUE,
                !.winner = compare_turn(fx.moves, fx.main_suit, fx.level)]
    /\ UNCHANGED <<gameVars, auxVars, result>>

NextTrick == CompareTurn

SpecTrick == InitTrick /\ [][NextTrick]_vars

----------------------------------------------------------------------------
(* card.py and rules.py applied on their own: get_effective_type, is_main,  *)
(* get_card_suit_for_rules, get_card_power_score                            *)

(* main_suit: None or a Suit; current_level: a rank from Two to Ace *)
MainSuits == {None, SPADES, HEARTS, CLUBS, DIAMONDS, JOKER}
Levels == TWO .. ACE

(* two cards (the first copy of two of the 54 kinds), a main suit, a level *)
CardInputs(suits, levels) ==
    {[fn |-> "card",
      cards |-> <<CopyId(a, 1), CopyId(b, 1)>>,
      main_suit |-> ms,
      level |-> level,
      stage |-> 0,
      types |-> <<>>,
      mains |-> <<>>,
      logic_suits |-> <<>>,
      power |-> <<>>] :
        <<a, b, ms, level>> \in
            {q \in (0 .. CardsPerDeck - 1) \X (0 .. CardsPerDeck - 1) \X suits \X levels :
                q[1] <= q[2]}}

InitCard == GameInit /\ fx \in CardInputs(MainSuits, Levels)

ClassifyCards ==
    /\ fx.stage = 0
    /\ fx' = [fx EXCEPT
                !.stage = 1,
                !.types = [i \in 1 .. 2 |->
                             get_effective_type(fx.cards[i], fx.main_suit, fx.level)],
                !.mains = [i \in 1 .. 2 |-> is_main(fx.cards[i], fx.main_suit, fx.level)],
                !.logic_suits = [i \in 1 .. 2 |->
                    get_card_suit_for_rules(fx.cards[i], fx.main_suit, fx.level)]]
    /\ UNCHANGED <<gameVars, auxVars, result>>

ScoreCards ==
    /\ fx.stage = 1
    /\ fx' = [fx EXCEPT
                !.stage = 2,
                !.power = [i \in 1 .. 2 |->
                             get_card_power_score(fx.cards[i], fx.main_suit, fx.level)]]
    /\ UNCHANGED <<gameVars, auxVars, result>>

NextCard == ClassifyCards \/ ScoreCards

SpecCard == InitCard /\ [][NextCard]_vars

----------------------------------------------------------------------------
(* rules.py applied on its own: calculate_declaration_strength *)

(* n cards: n - 1 copies of kind a and one card of kind b (n copies of a     *)
(* when b = a), n up to the four copies there are of a card                  *)
DeclaredCards(a, b, n) ==
    [i \in 1 .. n |-> IF i < n THEN CopyId(a, i) ELSE CopyId(b, n)]

StrengthInputs(levels) ==
    {[fn |-> "calculate_declaration_strength",
      cards |-> DeclaredCards(q[1], q[2], q[3]),
      level |-> q[4],
      applied |-> FALSE,
      strength |-> 0,
      shorter |-> 0] :
        q \in (0 .. CardsPerDeck - 1) \X (0 .. CardsPerDeck - 1) \X (0 .. NUM_DECKS)
                 \X levels}

InitStrength == GameInit /\ fx \in StrengthInputs(Levels)

(* the strength of the cards, and of the cards without the last one *)
CalculateStrength ==
    /\ ~fx.applied
    /\ fx' = [fx EXCEPT
                !.applied = TRUE,
                !.strength = calculate_declaration_strength(fx.cards, fx.level),
                !.shorter = calculate_declaration_strength(
                                SubSeq(fx.cards, 1, Len(fx.cards) - 1), fx.level)]
    /\ UNCHANGED <<gameVars, auxVars, result>>

NextStrength == CalculateStrength

SpecStrength == InitStrength /\ [][NextStrength]_vars

----------------------------------------------------------------------------
(* player.py applied on its own: remove_cards, has_cards *)

NumHandIds == 4       \* ids of cards a hand is made of
MaxHandLen == 3       \* cards in the hand
MaxIdsLen == 2        \* ids in a request

(* hands: distinct cards in arrival order *)
HandsOf(ids, len) ==
    {h \in UNION {[1 .. n -> ids] : n \in 0 .. len} :
        \A i, j \in DOMAIN h : i # j => h[i] # h[j]}

(* requests: ids of the hand's cards or the id of no card, repeats allowed *)
RequestsOf(ids, len) == UNION {[1 .. n -> ids \cup {0}] : n \in 0 .. len}

HandInputs(ids) ==
    {[fn |-> "remove_cards",
      hand |-> h,
      card_ids |-> r,
      applied |-> FALSE,
      raised |-> FALSE,
      has |-> FALSE,
      removed |-> <<>>,
      left |-> <<>>] :
        <<h, r>> \in HandsOf(ids, MaxHandLen) \X RequestsOf(ids, MaxIdsLen)}

InitHand == GameInit /\ fx \in HandInputs(1 .. NumHandIds)

(* remove_cards has no raise: it returns the cards it found and keeps the rest *)
RemoveCards ==
    /\ ~fx.applied
    /\ fx' = [fx EXCEPT
                !.applied = TRUE,
                !.raised = FALSE,
                !.has = has_cards(fx.hand, fx.card_ids),
                !.removed = cards_named(fx.hand, fx.card_ids),
                !.left = hand_without(fx.hand, fx.card_ids)]
    /\ UNCHANGED <<gameVars, auxVars, result>>

NextHand == RemoveCards

SpecHand == InitHand /\ [][NextHand]_vars

----------------------------------------------------------------------------
(* Properties of the round state machine, checked on Spec *)

CardsHeld ==
    SumSeq([i \in 1 .. NUM_SEATS |-> Len(hands[i - 1])]) + Len(deck) + Len(bottom_cards)

\* C1 (amended): in every reachable state the six hands, the deck and the
\* bottom, together with the cards that accepted plays have moved out of the
\* hands and the cards drawn for a seat nobody holds since the deck was built,
\* number 216; the cards of a resolved trick are kept nowhere, so hands + deck
\* + bottom alone fall short of 216 by the cards played.
C1_Conservation == CardsHeld + playedCount + droppedCount = DECK_SIZE

C1_Witness ==
    /\ phase = PLAYING
    /\ current_trick = <<>>
    /\ playedCount >= NUM_SEATS
    /\ CardsHeld = DECK_SIZE - playedCount

\* C1 as stated: whenever no trick is in flight, hands + deck + bottom = 216.
C1_AsStated == current_trick = <<>> => CardsHeld = DECK_SIZE

\* C2: a play_cards, exchange_cards or declare_main_suit call that raises
\* leaves every hand, the phase, current_turn_index, the current trick, the
\* bottom cards, the declaration, main_suit, dealer_index and the scores as
\* they were before the call.
C2_ErrorsChangeNothing ==
    [][(/\ result'.exc # ""
        /\ result'.op \in {"play_cards", "exchange_cards", "declare_main_suit"})
       => UNCHANGED <<hands, phase, current_turn_index, current_trick, bottom_cards,
                      declaration, main_suit, dealer_index, scores>>]_vars

C2_Witness ==
    /\ result.op = "play_cards"
    /\ result.exc = "ValueError"
    /\ result.msg.kind = "MustFollowSuit"
    /\ current_trick # <<>>
    /\ hands[result.player] # <<>>

\* C3 as stated: the phase changes only WAITING -> DRAWING, DRAWING ->
\* EXCHANGING, EXCHANGING -> PLAYING, PLAYING -> FINISHED, and FINISHED ->
\* DRAWING by the next round's start_game.
C3_PhaseForward ==
    [][phase' # phase =>
          \/ <<phase, phase'>> \in {<<DRAWING, EXCHANGING>>, <<EXCHANGING, PLAYING>>,
                                    <<PLAYING, FINISHED>>}
          \/ /\ <<phase, phase'>> \in {<<WAITING, DRAWING>>, <<FINISHED, DRAWING>>}
             /\ result'.op = "start_game"]_vars

\* C4: play_cards is accepted only in PLAYING and only from the seat whose
\* turn it is (WrongPhase, NotYourTurn otherwise); an accepted play by seat i
\* that does not complete the trick makes seat (i + 1) mod 6 the next to play
\* and moves the played cards from seat i's hand to the end of current_trick.
C4_PlayInTurn ==
    [][result'.op = "play_cards" =>
          LET i == result'.player
              played == SelectSeq(hands[i], LAMBDA c : c \in Range(result'.ids))
          IN  /\ result'.exc = "" => phase = PLAYING /\ i = current_turn_index
              /\ phase # PLAYING =>
                    result'.exc = "ValueError" /\ result'.msg.kind = "WrongPhase"
              /\ phase = PLAYING /\ i # current_turn_index =>
                    result'.exc = "ValueError" /\ result'.msg.kind = "NotYourTurn"
              /\ result'.exc = "" /\ Len(current_trick) < NUM_SEATS - 1 =>
                    /\ current_turn_index' = (i + 1) % 6
                    /\ current_trick' = Append(current_trick, <<i, played>>)
                    /\ Range(hands'[i]) = Range(hands[i]) \ Range(played)
                    /\ Len(hands'[i]) = Len(hands[i]) - Len(played)
                    /\ \A s \in Seats \ {i} : hands'[s] = hands[s]]_vars

C4_Witness ==
    /\ result.op = "play_cards"
    /\ result.exc = ""
    /\ Len(current_trick) \in 2 .. NUM_SEATS - 1
    /\ current_trick[Len(current_trick)][1] = result.player
    /\ current_turn_index = (result.player + 1) % 6

(* test_game_logic.py, trick 1: main suit Spades, level 3, seat 0 leads     *)
(* Spades Ace, seats 1..5 follow Spades King, Hearts Two, Spades 3, 4, 5    *)
ScenarioPlays ==
    <<<<SPADES, ACE>>, <<SPADES, KING>>, <<HEARTS, TWO>>,
      <<SPADES, 3>>, <<SPADES, 4>>, <<SPADES, 5>>>>

ScenarioTrick(moves) ==
    /\ main_suit = SPADES
    /\ current_level = 3
    /\ \A i \in 1 .. NUM_SEATS :
          /\ moves[i][1] = i - 1
          /\ Len(moves[i][2]) = 1
          /\ <<SuitOf(moves[i][2][1]), RankOf(moves[i][2][1])>> = ScenarioPlays[i]

(* the trick as the accepted sixth play completes it *)
CompletedTrick ==
    Append(current_trick,
           <<result'.player,
             SelectSeq(hands[result'.player], LAMBDA c : c \in Range(result'.ids))>>)

SixthPlayAccepted ==
    result'.op = "play_cards" /\ result'.exc = "" /\ Len(current_trick) = NUM_SEATS - 1

(* what the sixth play leaves, given the seat that is to win the scenario *)
ResolvedInCall(scenario_winner) ==
    LET moves == CompletedTrick
        w == moves[compare_turn(moves, main_suit, current_level) + 1][1]
    IN  /\ ~result'.ret.none
        /\ result'.ret.winner_idx = w
        /\ current_turn_index' = w
        /\ current_trick' = <<>>
        /\ ScenarioTrick(moves) => w = scenario_winner

----------------------------------------------------------------------------
(* Properties of compare_turn, checked on SpecTrick *)

TrickCat(i) == get_card_suit_for_rules(fx.moves[i][2][1], fx.main_suit, fx.level)
TrickScore(i) == get_card_power_score(fx.moves[i][2][1], fx.main_suit, fx.level)

(* the lead, and the later moves that follow or kill with the lead's type *)
Contenders ==
    {1} \cup {i \in 2 .. Len(fx.moves) :
                /\ \/ TrickCat(i) = TrickCat(1)
                   \/ TrickCat(i) = MAIN /\ TrickCat(1) # MAIN
                /\ classify_move(fx.moves[i][2]) = classify_move(fx.moves[1][2])}

\* C6: for six moves, compare_turn returns the index of the earliest move
\* with the greatest power score among the contenders (the lead, and every
\* later move in the lead's bucket, or in MAIN when the lead is not, that has
\* the lead's move type); a discard or a move of another type never wins and
\* an equal score never overtakes.
C6_EarliestStrongest ==
    (fx.fn = "compare_turn" /\ fx.applied) =>
        /\ fx.winner + 1 \in Contenders
        /\ \A i \in Contenders : TrickScore(i) <= TrickScore(fx.winner + 1)
        /\ \A i \in Contenders :
              TrickScore(i) = TrickScore(fx.winner + 1) => fx.winner + 1 <= i

C6_Witness ==
    /\ fx.fn = "compare_turn"
    /\ fx.applied
    /\ fx.winner >= 1
    /\ \E i \in Contenders :
          i > fx.winner + 1 /\ TrickScore(i) = TrickScore(fx.winner + 1)
    /\ \E i \in (1 .. Len(fx.moves)) \ Contenders :
          TrickScore(i) > TrickScore(fx.winner + 1)

----------------------------------------------------------------------------
(* Properties of validate_follow_turn, checked on SpecFollow *)

FxBucket == get_card_suit_for_rules(fx.leader_cards[1], fx.main_suit, fx.level)
FxInBucket(s) == InCategory(s, FxBucket, fx.main_suit, fx.level)

(* a follow with the lead's number of cards has been validated *)
FxFollowed ==
    /\ fx.fn = "validate_follow_turn"
    /\ fx.applied
    /\ Len(fx.follower_cards) = Len(fx.leader_cards)

\* C7: when the follower holds at least as many cards of the lead's bucket as
\* the lead has cards, a follow is accepted only if every played card is of
\* that bucket, and a follow with a card outside it is refused with
\* MustFollowSuit.
C7_MustFollowSuit ==
    (FxFollowed /\ Len(FxInBucket(fx.follower_hand)) >= Len(fx.leader_cards)) =>
        /\ fx.verdict = Valid => FxInBucket(fx.follower_cards) = fx.follower_cards
        /\ FxInBucket(fx.follower_cards) # fx.follower_cards =>
              fx.verdict = Refuse("MustFollowSuit", FxBucket, 0)

C7_Witness ==
    /\ FxFollowed
    /\ Len(FxInBucket(fx.follower_hand)) >= Len(fx.leader_cards)
    /\ FxInBucket(fx.follower_cards) \notin {<<>>, fx.follower_cards}
    /\ fx.verdict.kind = "MustFollowSuit"

\* C8: when the follower holds fewer cards of the lead's bucket than the lead
\* has cards, a follow is accepted exactly if it contains all of the
\* follower's bucket cards, whatever the others are; one that keeps a bucket
\* card back is refused with MustExhaustSuit, and no structure is asked of it.
C8_MustExhaustSuit ==
    (FxFollowed /\ Len(FxInBucket(fx.follower_hand)) < Len(fx.leader_cards)) =>
        IF Range(FxInBucket(fx.follower_hand)) \subseteq Range(fx.follower_cards)
        THEN fx.verdict = Valid
        ELSE fx.verdict = Refuse("MustExhaustSuit", FxBucket, 0)

C8_Witness ==
    /\ FxFollowed
    /\ Len(FxInBucket(fx.follower_hand)) < Len(fx.leader_cards)
    /\ FxInBucket(fx.follower_cards) # <<>>
    /\ Range(FxInBucket(fx.follower_hand)) \ Range(fx.follower_cards) # {}
    /\ fx.verdict.kind = "MustExhaustSuit"

(* best_available: the first size asked of the lead's type that the hand's  *)
(* bucket cards hold, 1 when there is none                                  *)
FxBestAvailable ==
    required_to_play(check_order(classify_move(fx.leader_cards)),
                     FxInBucket(fx.follower_hand))

\* C9 as stated: a follow that lies entirely in the lead's bucket with the
\* lead's card count is accepted iff its largest group of identical cards is
\* at least best_available, and is otherwise refused as a DeadStickViolation
\* naming best_available, for every lead type.
C9_DeadStick ==
    (FxFollowed /\ FxInBucket(fx.follower_cards) = fx.follower_cards) =>
        IF MaxGroup(fx.follower_cards) >= FxBestAvailable
        THEN fx.verdict = Valid
        ELSE fx.verdict = Refuse("DeadStickViolation", None, FxBestAvailable)

(* the dead-stick example: main Spades, a quad of Spades 9 led; the follower *)
(* holds a triple but no quad among at least four bucket cards and plays two *)
(* cards of the triple with two cards of another bucket                      *)
DeadStickExample ==
    /\ FxFollowed
    /\ fx.main_suit = SPADES
    /\ classify_move(fx.leader_cards) = QUAD
    /\ <<SuitOf(fx.leader_cards[1]), RankOf(fx.leader_cards[1])>> = <<SPADES, 9>>
    /\ HasGroup(FxInBucket(fx.follower_hand), 3)
    /\ ~HasGroup(FxInBucket(fx.follower_hand), 4)
    /\ Len(FxInBucket(fx.follower_hand)) >= Len(fx.leader_cards)
    /\ classify_move(FxInBucket(fx.follower_cards)) = PAIR
    /\ CountOf(fx.follower_hand, FxInBucket(fx.follower_cards)[1]) = 3

\* C10 (amended): in the dead-stick example the follow is refused with
\* MustFollowSuit naming the MAIN bucket: the off-bucket discards fail the
\* suit-following check, which comes before any dead-stick check.
C10_ExampleRefused ==
    DeadStickExample => fx.verdict = Refuse("MustFollowSuit", MAIN, 0)

C10_Witness == DeadStickExample /\ fx.verdict.kind = "MustFollowSuit"

\* C10 as stated: in the dead-stick example the follow is refused with
\* DeadStickViolation naming required size 3.
C10_AsStated ==
    DeadStickExample => fx.verdict = Refuse("DeadStickViolation", None, 3)

----------------------------------------------------------------------------
(* Properties of the leads, the declarations, the bottom and the scores,   *)
(* checked on Spec                                                          *)

(* the submitted ids name 1 to 4 cards, all of one suit and rank *)
LeadSubmission(ids) ==
    /\ Len(ids) \in 1 .. 4
    /\ \A i \in DOMAIN ids : ids[i] >= 1 /\ SameCard(ids[i], ids[1])

\* C11 as stated: with an empty trick, a play_cards call of the seat to play is
\* accepted iff the submitted cards are 1 to 4 cards identical in suit and
\* rank; any other submission is refused as InvalidMoveStructure and changes
\* nothing.
C11_LeadStructure ==
    [][(/\ phase = PLAYING
        /\ current_trick = <<>>
        /\ result'.op = "play_cards"
        /\ result'.player = current_turn_index)
       => IF LeadSubmission(result'.ids)
          THEN result'.exc = ""
          ELSE /\ result'.exc = "ValueError"
               /\ result'.msg.kind = "InvalidMoveStructure"
               /\ UNCHANGED <<hands, phase, current_turn_index, current_trick,
                              bottom_cards, scores>>]_vars

(* the cards and the strength of the declare_main_suit call just made, in   *)
(* the state it was made in                                                 *)
CalledCards == cards_named(hands[result'.player], result'.ids)
CalledStrength == calculate_declaration_strength(CalledCards, current_level)

(* the call just made is a declare_main_suit call in DRAWING with owned     *)
(* cards of nonzero strength and a suit argument fit for them               *)
WellFormedCall ==
    /\ result'.op = "declare_main_suit"
    /\ phase = DRAWING
    /\ has_cards(hands[result'.player], result'.ids)
    /\ CalledStrength > 0
    /\ IF SuitOf(CalledCards[1]) = JOKER
       THEN result'.suit_val \in {SPADES, HEARTS, CLUBS, DIAMONDS}
       ELSE result'.suit_val \in {None, SuitOf(CalledCards[1])}

\* C12: while a declaration is active, a declare_main_suit call replaces the
\* declaration and main_suit only if its strength is strictly greater than
\* the active strength; an otherwise well-formed call of equal or lower
\* strength is refused as WeakDeclaration and changes neither, so the
\* strength strictly increases from one accepted declaration to the next.
C12_StrictlyStronger ==
    [][(result'.op = "declare_main_suit" /\ declaration # NoDeclaration) =>
          /\ result'.exc = "" =>
                /\ CalledStrength > declaration.strength
                /\ declaration'.strength = CalledStrength
                /\ declaration'.player_idx = result'.player
                /\ main_suit' = declaration'.suit
          /\ (declaration' # declaration \/ main_suit' # main_suit) => result'.exc = ""
          /\ (WellFormedCall /\ CalledStrength <= declaration.strength) =>
                /\ result'.exc = "ValueError"
                /\ result'.msg.kind = "WeakDeclaration"
                /\ UNCHANGED <<declaration, main_suit>>]_vars

C12_Witness ==
    /\ result.op = "declare_main_suit"
    /\ result.exc = ""
    /\ declaration.player_idx = result.player
    /\ declaration.player_idx # dealer_index
    /\ declaration.strength >= 20

\* C13: the first accepted declare_main_suit of a round makes the declarer
\* the dealer; a later accepted declaration replaces the declaration but
\* leaves dealer_index alone, and so does every other call of the round
\* while the declaration stands.
C13_FirstDeclarerDeals ==
    [][/\ (result'.op = "declare_main_suit" /\ result'.exc = "") =>
             IF declaration = NoDeclaration
             THEN dealer_index' = result'.player
             ELSE dealer_index' = dealer_index /\ declaration' # declaration
       /\ (declaration # NoDeclaration
            /\ result'.op \notin {"start_game", "next_game"}) =>
             dealer_index' = dealer_index]_vars

C13_Witness ==
    /\ phase = FINISHED
    /\ declaration # NoDeclaration
    /\ declaration.player_idx # dealer_index
    /\ dealer_index # 0

\* C14 as stated: a declaration of jokers is accepted only with a suit
\* argument among Spades, Hearts, Clubs, Diamonds, and is refused as
\* InvalidSuitSelection, changing nothing, with a missing, unrecognised or
\* Joker argument, so that main_suit is never Joker; a declaration of level
\* cards takes the cards' suit and is refused when the argument names
\* another suit.
C14_SuitArgument ==
    [][(/\ result'.op = "declare_main_suit"
        /\ phase = DRAWING
        /\ has_cards(hands[result'.player], result'.ids)
        /\ CalledStrength > 0)
       => /\ main_suit' # JOKER
          /\ IF SuitOf(CalledCards[1]) = JOKER
             THEN IF result'.suit_val \in {SPADES, HEARTS, CLUBS, DIAMONDS}
                  THEN result'.exc = "" => main_suit' = result'.suit_val
                  ELSE /\ result'.exc = "ValueError"
                       /\ result'.msg.kind = "InvalidSuitSelection"
                       /\ UNCHANGED <<declaration, main_suit, dealer_index>>
             ELSE IF result'.suit_val \in {None, SuitOf(CalledCards[1])}
                  THEN result'.exc = "" => main_suit' = SuitOf(CalledCards[1])
                  ELSE /\ result'.exc = "ValueError"
                       /\ UNCHANGED <<declaration, main_suit, dealer_index>>]_vars

\* C15: declare_main_suit is refused, changing nothing, outside DRAWING
\* (WrongPhase), when a submitted id is not in the declarer's hand
\* (CardsNotOwned) and when the submitted cards have strength 0; a
\* declaration is created or replaced only by a call made in DRAWING.
C15_DeclareGuards ==
    [][/\ result'.op = "declare_main_suit" =>
             /\ phase # DRAWING =>
                   result'.exc = "ValueError" /\ result'.msg.kind = "WrongPhase"
             /\ (/\ phase = DRAWING
                 /\ \E i \in DOMAIN result'.ids :
                       result'.ids[i] \notin Range(hands[result'.player])) =>
                   result'.exc = "ValueError" /\ result'.msg.kind = "CardsNotOwned"
             /\ CalledStrength = 0 => result'.exc = "ValueError"
             /\ result'.exc # "" =>
                   UNCHANGED <<numPlayers, phase, deck, hands, current_level, main_suit,
                               dealer_index, current_turn_index, bottom_cards,
                               next_draw_index, declaration, current_trick, scores>>
       /\ (declaration' # declaration /\ declaration' # NoDeclaration) =>
             /\ phase = DRAWING
             /\ result'.op = "declare_main_suit"]_vars

C15_Witness ==
    /\ result.op = "declare_main_suit"
    /\ result.exc = "ValueError"
    /\ result.msg.kind = "CardsNotOwned"
    /\ phase = DRAWING
    /\ Len(result.ids) = 2
    /\ result.ids[1] \in Range(hands[result.player])
    /\ RankOf(result.ids[1]) = current_level

(* positions of the bottom cards that are no jokers *)
PlainBottom == {i \in DOMAIN bottom_cards : SuitOf(bottom_cards[i]) # JOKER}

\* C16: finalize_drawing_phase run with no declaration makes main_suit the
\* suit of the highest-ranked bottom card that is no joker, the first such
\* card in bottom order when several share that rank, and no suit at all when
\* every bottom card is a joker; run with a declaration it leaves main_suit
\* the declared suit.
C16_FlipBottom ==
    [][result'.op = "finalize_drawing_phase" =>
          IF declaration # NoDeclaration
          THEN main_suit' = main_suit /\ main_suit' = declaration.suit
          ELSE IF PlainBottom = {}
          THEN main_suit' = None
          ELSE \E i \in PlainBottom :
                  /\ \A j \in PlainBottom :
                        /\ RankOf(bottom_cards[j]) <= RankOf(bottom_cards[i])
                        /\ j < i => RankOf(bottom_cards[j]) < RankOf(bottom_cards[i])
                  /\ main_suit' = SuitOf(bottom_cards[i])]_vars

C16_Witness ==
    /\ result.op = "finalize_drawing_phase"
    /\ result.exc = ""
    /\ declaration = NoDeclaration
    /\ \E i, j \in DOMAIN result.ret.cards :
          /\ i < j
          /\ RankOf(result.ret.cards[i]) = RankOf(result.ret.cards[j])
          /\ SuitOf(result.ret.cards[i]) # SuitOf(result.ret.cards[j])
          /\ \A k \in DOMAIN result.ret.cards :
                \/ SuitOf(result.ret.cards[k]) = JOKER
                \/ RankOf(result.ret.cards[k]) <= RankOf(result.ret.cards[i])
          /\ main_suit = SuitOf(result.ret.cards[i])

\* C17: when finalize_drawing_phase returns, the dealer's hand is its hand of
\* before followed by the bottom cards in bottom order, six of them when the
\* call follows the draw, bottom_cards is empty, no other hand has changed,
\* the phase is EXCHANGING, current_turn_index is dealer_index, and the
\* bottom_cards returned are the cards transferred.
C17_BottomToDealer ==
    [][(result'.op = "finalize_drawing_phase" /\ result'.exc = "") =>
          /\ hands'[dealer_index'] = hands[dealer_index'] \o bottom_cards
          /\ \A s \in Seats \ {dealer_index'} : hands'[s] = hands[s]
          /\ bottom_cards' = <<>>
          /\ phase' = EXCHANGING
          /\ current_turn_index' = dealer_index'
          /\ result'.ret.cards = bottom_cards
          /\ result'.ret.seat = dealer_index'
          /\ phase = DRAWING => Len(bottom_cards) = BOTTOM_SIZE]_vars

C17_Witness ==
    /\ result.op = "finalize_drawing_phase"
    /\ result.exc = ""
    /\ phase = EXCHANGING
    /\ deck = <<>>
    /\ dealer_index # 0
    /\ Len(result.ret.cards) = BOTTOM_SIZE
    /\ Len(hands[dealer_index]) = (DECK_SIZE - BOTTOM_SIZE) \div NUM_SEATS + BOTTOM_SIZE
    /\ Suffix(hands[dealer_index], BOTTOM_SIZE) = result.ret.cards
    /\ bottom_cards = <<>>

\* C18: exchange_cards is refused, changing nothing, outside EXCHANGING
\* (WrongPhase), from a seat that is not the dealer, with a number of ids
\* other than 6 (WrongExchangeCount), and with an id that is not in the
\* dealer's hand (CardsNotOwned).
C18_ExchangeGuards ==
    [][result'.op = "exchange_cards" =>
          LET i == result'.player
              ids == result'.ids
              refused(kind) == result'.exc = "ValueError" /\ result'.msg.kind = kind
          IN  /\ IF phase # EXCHANGING THEN refused("WrongPhase")
                 ELSE IF i # dealer_index THEN refused("NotDealer")
                 ELSE IF Len(ids) # 6 THEN refused("WrongExchangeCount")
                 ELSE IF \E k \in DOMAIN ids : ids[k] \notin Range(hands[i])
                 THEN refused("CardsNotOwned")
                 ELSE result'.exc = ""
              /\ result'.exc # "" =>
                    UNCHANGED <<numPlayers, phase, deck, hands, current_level, main_suit,
                                dealer_index, current_turn_index, bottom_cards,
                                next_draw_index, declaration, current_trick,
                                scores>>]_vars

C18_Witness ==
    /\ result.op = "exchange_cards"
    /\ result.exc = "ValueError"
    /\ result.msg.kind = "CardsNotOwned"
    /\ phase = EXCHANGING
    /\ result.player = dealer_index
    /\ Len(result.ids) = BOTTOM_SIZE
    /\ \E k \in DOMAIN result.ids : result.ids[k] \in Range(hands[dealer_index])

\* C19 as stated: after an accepted exchange_cards, bottom_cards holds
\* exactly 6 cards, the cards the submitted ids name, the dealer's hand is 6
\* cards smaller, every other hand is as before, the phase is PLAYING and
\* current_turn_index is dealer_index.
C19_ExchangeEffect ==
    [][(result'.op = "exchange_cards" /\ result'.exc = "") =>
          /\ Len(bottom_cards') = 6
          /\ Range(bottom_cards') = Range(result'.ids)
          /\ Len(hands'[dealer_index]) = Len(hands[dealer_index]) - 6
          /\ \A s \in Seats \ {dealer_index} : hands'[s] = hands[s]
          /\ phase' = PLAYING
          /\ current_turn_index' = dealer_index]_vars

(* 5 for a Five, 10 for a Ten or a King, 0 otherwise *)
PointValue(c) == IF RankOf(c) = 5 THEN 5 ELSE IF RankOf(c) \in {10, 13} THEN 10 ELSE 0

(* the point values of the cards of all moves, summed *)
PointsPlayed(moves) ==
    SumSeq([i \in DOMAIN moves |->
              SumSeq([k \in DOMAIN moves[i][2] |-> PointValue(moves[i][2][k])])])

\* C20: when the sixth play resolves a trick, the score of the winner's team
\* grows by the point values (5 for a Five, 10 for a Ten or King) of all
\* cards of the six moves, plus twice the bottom's points when the trick is
\* the round's last and the winner is not of the dealer's team; the other
\* two teams' scores stay as they were.
C20_TrickPoints ==
    [][SixthPlayAccepted =>
          LET w == result'.ret.winner_idx
              kitty == IF Len(hands'[w]) = 0 /\ w % 3 # dealer_index % 3
                       THEN 2 * SumSeq([i \in DOMAIN bottom_cards |->
                                          PointValue(bottom_cards[i])])
                       ELSE 0
          IN  /\ scores'[w % 3] = scores[w % 3] + PointsPlayed(CompletedTrick) + kitty
              /\ result'.ret.points = PointsPlayed(CompletedTrick) + kitty
              /\ \A t \in 0 .. 2 : t # w % 3 => scores'[t] = scores[t]]_vars

C20_Witness ==
    /\ result.op = "play_cards"
    /\ ~result.ret.none
    /\ result.ret.points > result.ret.kitty
    /\ scores[result.ret.winner_idx % 3] > result.ret.points
    /\ \E t \in 0 .. 2 : t # result.ret.winner_idx % 3 /\ scores[t] > 0

(* the point values of the bottom cards, summed *)
BottomValue == SumSeq([i \in DOMAIN bottom_cards |-> PointValue(bottom_cards[i])])

\* C21: a resolved trick that leaves its winner's hand empty (the round's last
\* trick) adds, besides the trick's points, exactly twice the point value of
\* the bottom cards to the winner's team iff that team is not the dealer's;
\* a trick won by the dealer's team, and a trick that is not the last, adds
\* no bottom points to any team.
C21_KittyPenalty ==
    [][SixthPlayAccepted =>
          LET w == result'.ret.winner_idx
              last == Len(hands'[w]) = 0
              extra == [t \in 0 .. 2 |->
                          scores'[t] - scores[t]
                          - (IF t = w % 3 THEN PointsPlayed(CompletedTrick) ELSE 0)]
          IN  /\ \A t \in 0 .. 2 : t # w % 3 => extra[t] = 0
              /\ (last /\ w % 3 # dealer_index % 3) => extra[w % 3] = 2 * BottomValue
              /\ (~last \/ w % 3 = dealer_index % 3) => extra[w % 3] = 0
              /\ result'.ret.kitty = extra[w % 3]]_vars

C21_Witness ==
    /\ result.op = "play_cards"
    /\ result.ret.game_over
    /\ phase = FINISHED
    /\ result.ret.winner_idx % 3 # dealer_index % 3
    /\ result.ret.kitty = 2 * BottomValue
    /\ result.ret.kitty > 0
    /\ Len(bottom_cards) = BOTTOM_SIZE

\* C22 as stated: a resolved trick makes the phase FINISHED, and carries
\* game_over, exactly when all six hands are empty after it; while a player
\* holds a card after a resolved trick the phase stays PLAYING, and the phase
\* is never FINISHED while a player holds cards.
C22_FinishedWhenEmpty ==
    [][/\ SixthPlayAccepted =>
             LET empty == \A s \in Seats : hands'[s] = <<>>
             IN  /\ phase' = FINISHED <=> empty
                 /\ result'.ret.game_over <=> empty
                 /\ ~empty => phase' = PLAYING
       /\ phase' = FINISHED => \A s \in Seats : hands'[s] = <<>>]_vars

----------------------------------------------------------------------------
(* Properties of the succession between rounds, of start_game and of the   *)
(* draw, checked on Spec                                                   *)

(* a step in which next_game started the next round *)
NextGameAccepted == result'.op = "next_game" /\ result'.exc = ""

(* the teams defending against the dealer's *)
Defenders == {t \in 0 .. 2 : t # dealer_index % 3}

\* C23 as stated: when both defending teams ended the round below 130 points,
\* next_game raises the dealer team's level by one and no other level, sets
\* current_level to the raised level, starts the round in DRAWING and makes
\* the seat two seats on from the old dealer the new dealer.
C23_TeammateTwoSeatsOn ==
    [][(NextGameAccepted /\ \A t \in Defenders : scores[t] < 130) =>
          /\ team_levels' = [t \in 0 .. 2 |-> team_levels[t]
                                   + (IF t = dealer_index % 3 THEN 1 ELSE 0)]
          /\ current_level' = team_levels[dealer_index % 3] + 1
          /\ dealer_index' = (dealer_index + 2) % 6
          /\ phase' = DRAWING]_vars

\* C23, amended: when both defending teams ended the round below 130 points,
\* next_game raises the dealer team's level by one and no other level, sets
\* current_level to the raised level, starts the round in DRAWING and makes
\* the dealer's teammate, the seat three seats on from the old dealer, the
\* new dealer.
C23_TeammateOpposite ==
    [][(NextGameAccepted /\ \A t \in Defenders : scores[t] < 130) =>
          /\ team_levels' = [t \in 0 .. 2 |-> team_levels[t]
                                   + (IF t = dealer_index % 3 THEN 1 ELSE 0)]
          /\ current_level' = team_levels[dealer_index % 3] + 1
          /\ dealer_index' = (dealer_index + 3) % 6
          /\ dealer_index' % 3 = dealer_index % 3
          /\ phase' = DRAWING]_vars

C23_Witness ==
    /\ result.op = "next_game" /\ result.exc = "" /\ phase = DRAWING
    /\ \A t \in Defenders : scores[t] < 130
    /\ \E t \in Defenders : scores[t] > 0
    /\ team_levels[dealer_index % 3] = INITIAL_LEVEL + 1
    /\ current_level = INITIAL_LEVEL + 1
    /\ dealer_index = 3

\* C24: when a defending team ended the round with 130 points or more,
\* next_game gives the deal to a defending team with the highest score: the
\* new dealer is that team's seat nearest clockwise from the old dealer (one
\* or two seats on), current_level becomes that team's level, and every
\* team's level stays as it was.
C24_DefendersTakeDeal ==
    [][(NextGameAccepted /\ \E t \in Defenders : scores[t] >= 130) =>
          LET w == dealer_index' % 3
          IN  /\ w \in Defenders
              /\ \A t \in Defenders : scores[t] <= scores[w]
              /\ dealer_index' \in {(dealer_index + 1) % 6, (dealer_index + 2) % 6}
              /\ current_level' = team_levels[w]
              /\ team_levels' = team_levels
              /\ phase' = DRAWING]_vars

C24_Witness ==
    /\ result.op = "next_game" /\ result.exc = "" /\ phase = DRAWING
    /\ scores[dealer_index % 3] >= 130
    /\ current_level = INITIAL_LEVEL
    /\ team_levels[dealer_index % 3] = INITIAL_LEVEL
    /\ \E t \in 0 .. 2 : team_levels[t] = INITIAL_LEVEL + 1

\* C25: start_game with other than six players seated raises
\* WrongPlayerCount and changes no field of the game; with six players it
\* succeeds and leaves 210 cards in the deck, 6 bottom cards, six empty
\* hands, no declaration, no main suit, the phase DRAWING, dealer_index 0 if
\* it was unset, and the next card going to seat dealer_index.
C25_StartGame ==
    [][result'.op = "start_game" =>
          IF numPlayers # 6
          THEN /\ result'.exc = "ValueError"
               /\ result'.msg.kind = "WrongPlayerCount"
               /\ UNCHANGED gameVars
          ELSE /\ result'.exc = ""
               /\ Len(deck') = 210
               /\ Len(bottom_cards') = 6
               /\ \A s \in Seats : hands'[s] = <<>>
               /\ declaration' = NoDeclaration
               /\ main_suit' = None
               /\ phase' = DRAWING
               /\ dealer_index = UNSET => dealer_index' = 0
               /\ dealer_index' \in Seats
               /\ next_draw_index' = dealer_index']_vars

C25_Witness ==
    /\ result.op = "start_game" /\ result.exc = "" /\ numPlayers = 6
    /\ phase = DRAWING /\ Len(deck) = 210 /\ Len(bottom_cards) = 6
    /\ dealer_index = 0 /\ next_draw_index = 0 /\ decksBuilt = 1

\* C26: a successful start_game leaves dealer_index (when it was set),
\* current_level and the teams' levels as they were, and with them the seats,
\* the scores, the trick on the table and the turn; what it writes is the
\* deck, the hands, the bottom cards, the declaration, main_suit, the phase
\* and the seat the draw starts at.
C26_StartGameFrame ==
    [][(result'.op = "start_game" /\ result'.exc = "") =>
          /\ dealer_index # UNSET => dealer_index' = dealer_index
          /\ current_level' = current_level
          /\ team_levels' = team_levels
          /\ UNCHANGED <<numPlayers, scores, current_trick, current_turn_index>>]_vars

C26_Witness ==
    /\ result.op = "start_game" /\ result.exc = "" /\ phase = DRAWING
    /\ decksBuilt = 3
    /\ dealer_index = 3 /\ current_level = INITIAL_LEVEL + 1
    /\ team_levels[0] = INITIAL_LEVEL + 1
    /\ \E t \in 0 .. 2 : scores[t] > 0
    /\ \A s \in Seats : hands[s] = <<>>

\* C27: after a start_game that left the dealer at seat d, the k-th
\* draw_next_card on a non-empty deck (k counted from 0) takes the front card
\* of the deck and appends it to the hand of seat (d + k) mod 6, whatever
\* dealer_index has become, and changes no other hand and not the bottom;
\* when the 210 cards are dealt and the phase is still DRAWING every hand
\* holds 35 cards; a call on the empty deck returns none and changes nothing.
C27_DrawRotation ==
    /\ [][(result'.op = "draw_next_card" /\ decksBuilt >= 1) =>
             IF deck = <<>>
             THEN /\ result'.exc = "" /\ result'.ret.none
                  /\ UNCHANGED gameVars
             ELSE LET k == 210 - Len(deck)
                      seat == (draw_start + k) % 6
                  IN  /\ result'.exc = ""
                      /\ result'.ret.seat = seat
                      /\ result'.ret.cards = <<Head(deck)>>
                      /\ deck' = Tail(deck)
                      /\ hands' = [hands EXCEPT ![seat] = Append(@, Head(deck))]
                      /\ bottom_cards' = bottom_cards]_vars
    /\ []((decksBuilt >= 1 /\ phase = DRAWING /\ deck = <<>>) =>
             \A s \in Seats : Len(hands[s]) = 35)

C27_Witness ==
    /\ result.op = "draw_next_card" /\ result.exc = "" /\ result.ret.none
    /\ phase = DRAWING /\ deck = <<>> /\ decksBuilt = 1
    /\ draw_start = 0 /\ dealer_index # 0
    /\ \A s \in Seats : Len(hands[s]) = 35
    /\ Len(bottom_cards) = 6

(* the ids of the deck built by the last start_game (by the constructor     *)
(* before the first)                                                        *)
RoundIds == Range(InitializeDeck(decksBuilt))

(* the cards lying somewhere: deck, hands, bottom, moves of the trick *)
RECURSIVE Flatten(_)
Flatten(ss) == IF ss = <<>> THEN <<>> ELSE Head(ss) \o Flatten(Tail(ss))
TrickCards == Flatten([i \in DOMAIN current_trick |-> current_trick[i][2]])
CardsLying == deck \o Flatten([i \in 1 .. NUM_SEATS |-> hands[i - 1]]) \o bottom_cards
CardsOfRoundInTrick == Filter(TrickCards, RoundIds)

\* C28: the 216 cards of a deck have 216 distinct ids, and in every state of
\* a round every card of the round's deck is in exactly one place: the deck,
\* one hand, the bottom cards, one move of the current trick, or among the
\* cards played in resolved tricks; no card lies in two places or twice in
\* one, and none is lost.
C28_EachCardInOnePlace ==
    decksBuilt >= 1 =>
        LET placed == CardsLying \o CardsOfRoundInTrick
        IN  /\ Cardinality(RoundIds) = 216
            /\ Range(CardsLying) \subseteq RoundIds
            /\ Cardinality(Range(placed)) = Len(placed)
            /\ playedCount >= Len(CardsOfRoundInTrick)
            /\ Len(placed) + (playedCount - Len(CardsOfRoundInTrick)) = 216

C28_Witness ==
    /\ phase = PLAYING /\ decksBuilt = 1
    /\ Len(CardsOfRoundInTrick) = 3 /\ Len(current_trick) = 3
    /\ playedCount > 12 /\ Len(bottom_cards) = 6
    /\ Len(CardsLying) + playedCount = 216

----------------------------------------------------------------------------
(* Properties of the card classification and the power score, checked on   *)
(* SpecCard                                                                *)

(* the effective type as the rules give it, case by case *)
TypeByRule(id, ms, level) ==
    LET r == RankOf(id)
        onMain == SuitOf(id) = ms
    IN  CHOOSE t \in SUB_CARD .. BIG_JOKER_TYPE :
           /\ t = BIG_JOKER_TYPE <=> r = 16
           /\ t = SMALL_JOKER_TYPE <=> r = 15
           /\ t = MAIN_LEVEL <=> (r < 15 /\ r = level /\ onMain)
           /\ t = SUB_LEVEL <=> (r < 15 /\ r = level /\ ~onMain)
           /\ t = MAIN_TWO <=> (r = 2 /\ level # 2 /\ onMain)
           /\ t = SUB_TWO <=> (r = 2 /\ level # 2 /\ ~onMain)
           /\ t = MAIN_SUIT_CARD <=> (r < 15 /\ r # 2 /\ r # level /\ onMain)

\* C29: for every card, every main suit (or none) and every level from 2 to
\* 14 the effective type is the first match of: Big Joker, Small Joker, the
\* level rank (MainLevel in the main suit, else SubLevel), the Two (MainTwo
\* in the main suit, else SubTwo), the main suit (MainSuit), else SubCard;
\* the card is main, and its logic suit is MAIN, exactly when its type is
\* not SubCard, and otherwise its logic suit is its own suit. With main
\* Spades at level 3 the Two of Hearts is SubTwo and main, the 3 of Clubs
\* SubLevel and main, the 7 of Clubs SubCard and not main.
C29_EffectiveType ==
    (fx.fn = "card" /\ fx.stage >= 1) =>
        \A i \in 1 .. 2 :
           LET id == fx.cards[i]
           IN  /\ fx.types[i] = TypeByRule(id, fx.main_suit, fx.level)
               /\ fx.mains[i] <=> fx.types[i] # SUB_CARD
               /\ fx.logic_suits[i] = MAIN <=> fx.types[i] # SUB_CARD
               /\ fx.types[i] = SUB_CARD => fx.logic_suits[i] = SuitOf(id)
               /\ (fx.main_suit = SPADES /\ fx.level = 3) =>
                     /\ id = CopyId(CardSlot(1, 2), 1) =>
                            fx.types[i] = SUB_TWO /\ fx.mains[i]
                     /\ id = CopyId(CardSlot(2, 3), 1) =>
                            fx.types[i] = SUB_LEVEL /\ fx.mains[i]
                     /\ id = CopyId(CardSlot(2, 7), 1) =>
                            fx.types[i] = SUB_CARD /\ ~fx.mains[i]

C29_Witness ==
    /\ fx.fn = "card" /\ fx.stage = 1
    /\ fx.main_suit = SPADES /\ fx.level = 3
    /\ fx.cards = <<CopyId(CardSlot(1, 2), 1), CopyId(CardSlot(2, 3), 1)>>
    /\ fx.types = <<SUB_TWO, SUB_LEVEL>>
    /\ fx.mains = <<TRUE, TRUE>>
    /\ fx.logic_suits = <<MAIN, MAIN>>

(* the score the rules give a card of effective type t and rank r *)
ScoreByRule(t, r) ==
    IF t = SUB_CARD THEN r
    ELSE IF t = MAIN_SUIT_CARD THEN 200 + r
    ELSE <<400, 500, 600, 700, 800, 900>>[t - 1]

C34_PlayMovesNamedCards ==
    [][result'.op = "play_cards" =>
          LET p == result'.player
              ids == result'.ids
              owned == \A i \in DOMAIN ids : ids[i] \in Range(hands[p])
              repeated == \E i, j \in DOMAIN ids : i # j /\ ids[i] = ids[j]
          IN  /\ result'.exc = "" =>
                    /\ owned
                    /\ Len(hands[p]) - Len(hands'[p]) = Len(ids)
              /\ (~owned \/ repeated) =>
                    result'.exc # "" /\ UNCHANGED gameVars]_vars

\* C35 as stated: whenever the phase is PLAYING and no trick is in progress
\* the six hands have the same size; every accepted follow takes as many
\* cards out of the hand as the lead has; and the winner's hand is empty
\* after a resolved trick exactly when all six hands are empty.
C35_EqualHands ==
    /\ []((phase = PLAYING /\ current_trick = <<>>) =>
             \A s, t \in Seats : Len(hands[s]) = Len(hands[t]))
    /\ [][(result'.op = "play_cards" /\ result'.exc = "" /\ current_trick # <<>>) =>
             Len(hands[result'.player]) - Len(hands'[result'.player])
                = Len(current_trick[1][2])]_vars
    /\ [][SixthPlayAccepted =>
             (hands'[result'.ret.winner_idx] = <<>>
                <=> \A s \in Seats : hands'[s] = <<>>)]_vars

\* the submissions looked at for the seat to play: the default play and,
\* for a hand of at most four cards, every selection of its cards
Submissions(hand) ==
    {PlayDefault(hand)} \cup
    (IF Len(hand) <= 4 THEN {Filter(hand, S) : S \in SUBSET Range(hand)} ELSE {})

\* C36 as stated: in every PLAYING state the player whose turn it is has a
\* submission that play_cards accepts, so the round never deadlocks.
C36_AlwaysAPlay ==
    phase = PLAYING =>
        LET hand == hands[current_turn_index]
        IN  \E ids \in Submissions(hand) :
               play_validation(cards_named(hand, ids), hand) = Valid

\* C37 as stated: immediately after start_game, in the first round or in a
\* later round entered through next_game, the three team scores are 0 and
\* current_trick is empty.
C37_CleanStart ==
    [][(result'.op \in {"start_game", "next_game"} /\ result'.exc = "") =>
          /\ \A t \in 0 .. 2 : scores'[t] = 0
          /\ current_trick' = <<>>]_vars

----------------------------------------------------------------------------
(* Properties of the declaration strength, checked on SpecStrength *)

\* C31: the strength of n identical cards is 10 n for cards of the level
\* rank (10, 20, 30, 40), 50 and 70 for three and four Small Jokers, 60 and
\* 80 for three and four Big Jokers, and 0 for anything else: no cards,
\* cards that are not all alike, one or two jokers, plain cards off the
\* level rank. In each family one card more is strictly stronger, and every
\* joker declaration that counts is stronger than every level declaration.
C31_DeclarationStrength ==
    (fx.fn = "calculate_declaration_strength" /\ fx.applied) =>
        LET n == Len(fx.cards)
            alike == \A i \in 1 .. n : Slot(fx.cards[i]) = Slot(fx.cards[1])
            r == IF n = 0 THEN 0 ELSE RankOf(fx.cards[1])
            byLevel == n >= 1 /\ alike /\ r = fx.level
            bySmall == n >= 3 /\ alike /\ r = 15
            byBig == n >= 3 /\ alike /\ r = 16
        IN  /\ byLevel => fx.strength = <<10, 20, 30, 40>>[n]
            /\ bySmall => fx.strength = (IF n = 3 THEN 50 ELSE 70)
            /\ byBig => fx.strength = (IF n = 3 THEN 60 ELSE 80)
            /\ ~(byLevel \/ bySmall \/ byBig) => fx.strength = 0
            /\ (fx.strength > 0 /\ fx.shorter > 0) => fx.strength > fx.shorter
            /\ byLevel => fx.strength < 50
            /\ (bySmall \/ byBig) => fx.strength > 40

C31_Witness ==
    /\ fx.fn = "calculate_declaration_strength" /\ fx.applied
    /\ Len(fx.cards) = 4 /\ fx.level = 7
    /\ \A i \in 1 .. 4 : Slot(fx.cards[i]) = 52
    /\ fx.strength = 70 /\ fx.shorter = 50

----------------------------------------------------------------------------
(* Properties of the hand, checked on SpecHand *)

\* C32 as stated: removing cards from a hand by id fails, leaving the hand
\* as it was, when a requested id is not in the hand; when every requested
\* id is in the hand it removes exactly the cards named, returns them, and
\* keeps the other cards in their arrival order.
C32_RemoveByIds ==
    (fx.fn = "remove_cards" /\ fx.applied) =>
        IF \E i \in DOMAIN fx.card_ids : fx.card_ids[i] \notin Range(fx.hand)
        THEN fx.raised /\ fx.left = fx.hand
        ELSE /\ ~fx.raised
             /\ Range(fx.removed) = Range(fx.card_ids)
             /\ Range(fx.left) = Range(fx.hand) \ Range(fx.card_ids)
             /\ \A i, j \in DOMAIN fx.left :
                   i < j => \E a, b \in DOMAIN fx.hand :
                               a < b /\ fx.hand[a] = fx.left[i] /\ fx.hand[b] = fx.left[j]

----------------------------------------------------------------------------
(* Properties of the levels, checked on SpecLevels *)

\* C33 as stated: whatever rounds and successions have taken place,
\* current_level and the level of every team are ranks from 2 to 14.
C33_LevelsAreRanks ==
    /\ current_level \in 2 .. 14
    /\ \A t \in 0 .. 2 : team_levels[t] \in 2 .. 14

----------------------------------------------------------------------------
(* Properties of the concurrent PLAY_CARDS handlers, checked on SpecPlays *)

(* the seats of the moves are the leader's and the seats after it, clockwise *)
ClockwiseFromLeader(moves) ==
    \A i \in DOMAIN moves : moves[i][1] = (moves[1][1] + i - 1) % NUM_SEATS

NoSeatTwice(moves) ==
    \A i, j \in DOMAIN moves : i # j => moves[i][1] # moves[j][1]

(* the step is a handler's call of play_cards *)
HandlerCalls == \E s \in Seats : fx.pc[s] = "receive" /\ fx'.pc[s] # "receive"

\* C38: with the six handlers taking PLAY_CARDS messages in any order, each
\* call of play_cards being one step: only the play of the seat whose turn
\* it is is accepted and the turn then leaves that seat until the trick is
\* resolved, every other call changes nothing; between calls current_trick
\* holds at most five moves and no seat twice; the six moves of a resolved
\* trick come from six distinct seats, clockwise from the trick's leader.
C38_AtomicPlays ==
    /\ [](/\ Len(current_trick) <= NUM_SEATS - 1
          /\ NoSeatTwice(current_trick)
          /\ ClockwiseFromLeader(current_trick))
    /\ [][HandlerCalls =>
             /\ result'.op = "play_cards"
             /\ result'.exc = "" => result'.player = current_turn_index
             /\ result'.player # current_turn_index =>
                   result'.exc # "" /\ UNCHANGED gameVars
             /\ (result'.exc = "" /\ ~SixthPlayAccepted) =>
                   /\ Len(current_trick') = Len(current_trick) + 1
                   /\ current_turn_index' # result'.player
                   /\ result'.player \notin {current_trick[i][1] : i \in DOMAIN current_trick}
             /\ SixthPlayAccepted =>
                   /\ Len(CompletedTrick) = NUM_SEATS
                   /\ NoSeatTwice(CompletedTrick)
                   /\ ClockwiseFromLeader(CompletedTrick)
                   /\ current_trick' = <<>>]_vars

C38_Witness ==
    /\ Concurrent
    /\ phase = PLAYING
    /\ playedCount = NUM_SEATS + 2
    /\ Len(current_trick) = 2
    /\ current_trick[1][1] # 0
    /\ result.op = "play_cards"
    /\ result.exc = "ValueError"
    /\ result.msg.kind = "NotYourTurn"
    /\ \A s \in Seats : fx.pc[s] = "send"

====
